---- MODULE Spec2Model ----
(***************************************************************************)
(* Model of hlfun_auth_srv: the shared State (src/src/state.rs) and the    *)
(* dispatch part of ConnectionProcessor::process (src/src/service.rs).     *)
(*                                                                         *)
(* Option<T> is a sequence of length 0 (None) or 1 (Some(x)).              *)
(* An Ipv4Addr is the tuple of its four octets, as Ipv4Addr::octets().     *)
(* An Ipv4Net is [addr, len]: Ipv4Net::new keeps the address as given (it  *)
(* does not clear the host bits) and == compares address and length.       *)
(***************************************************************************)
EXTENDS Integers, Sequences, FiniteSets, TLC

VARIABLES
    users,                      \* State::users : login -> User
    first_byte_banned_subnets,  \* State::first_byte_banned_subnets : octet -> Vec<Ipv4Net>
    root_banned_subnets,        \* State::root_banned_subnets : set of Ipv4Net
    pc,                         \* per worker thread: position inside process()
    pending,                    \* per worker thread: the request it is in the middle of
    issued,                     \* history: tokens returned by authenticate so far
    banned_ref,                 \* history: subnets banned and not unbanned since
    user_ban,                   \* history: logins banned by a 201 BanUser, not yet unbanned by a 204
    last,                       \* the step just taken: request, response code, result
    wire,                       \* one connection: the requests its peer sends, in order
    peer,                       \* one connection: "open", "closed" (FIN) or "reset"
    rdpos,                      \* one connection: bytes of the wire the socket has delivered
    buf,                        \* process(): buf, as [from, len] (a window of the wire)
    cp,                         \* process(): the await the task is suspended at
    parsed,                     \* process(): header_len, content_length, handler, ip, token
    written,                    \* one connection: the responses written, in order
    prefix_set,                 \* ShardedPrefixSet: shard -> the addresses its IpRange covers
    range_ref,                  \* history: one unsharded IpRange given the same calls
    held                        \* per thread: the DashMap guards it holds, as <<map, key>>

conn_vars == <<wire, peer, rdpos, buf, cp, parsed, written>>

set_vars == <<prefix_set, range_ref>>

vars == <<users, first_byte_banned_subnets, root_banned_subnets, pc, pending,
          issued, banned_ref, user_ban, last, wire, peer, rdpos, buf, cp, parsed, written,
          prefix_set, range_ref, held>>

None == << >>
Some(x) == <<x>>

----------------------------------------------------------------------------
(* Program constants and the data the process is started with *)

NumThreads == 2
Threads == 1..NumThreads

ServiceKey == "CGWp"
AttackerKey == "evil"

IpUS  == <<10, 1, 0, 5>>
IpUS2 == <<10, 200, 0, 9>>
IpOut == <<11, 0, 0, 1>>

Net(a, l) == [addr |-> a, len |-> l]

\* GeoIndex built by read_countries: country -> set of prefixes; "XX" is not indexed
country_prefixes == [c \in {"US"} |-> {Net(<<10, 0, 0, 0>>, 8)}]

RootUser == [login |-> "root", password |-> "r1", name |-> "Root", phone |-> "000",
             country |-> "US", is_admin |-> TRUE, is_banned |-> FALSE, nonce |-> ""]

\* users.jsonl as loaded by read_users: is_banned and nonce are #[serde(skip)]
read_users == [l \in {"root"} |-> RootUser]

----------------------------------------------------------------------------
(* ipnet / iprange arithmetic *)

Hi(a) == a[1] * 256 + a[2]
Lo(a) == a[3] * 256 + a[4]

\* the leading len bits of an address, as the pair (bits of the upper half, bits of the lower half)
PrefixBits(a, len) ==
    IF len <= 16 THEN <<Hi(a) \div (2 ^ (16 - len)), 0>>
    ELSE <<Hi(a), Lo(a) \div (2 ^ (32 - len))>>

\* Ipv4Net::contains(&Ipv4Addr): network() <= ip <= broadcast()
NetContains(net, ip) == PrefixBits(net.addr, net.len) = PrefixBits(ip, net.len)

\* IpRange::contains(&Ipv4Net::new(ip, 32))
RangeContains(range, ip) == \E n \in range : NetContains(n, ip)

\* Ipv4Net::new(ip, mask) is Err for a prefix length above 32
NetNewOk(mask) == mask <= 32

----------------------------------------------------------------------------
(* Tokens: claims {login, nonce} with an HS256 MAC over them *)

Mac(key, login, nonce) == [key |-> key, login |-> login, nonce |-> nonce]

Sign(key, login, nonce) == [login |-> login, nonce |-> nonce, mac |-> Mac(key, login, nonce)]

\* HS256Key::verify_token: recompute the MAC over the presented claims
verify_token(key, jwt) ==
    IF jwt.mac = Mac(key, jwt.login, jwt.nonce) THEN Some(jwt.login) ELSE None

----------------------------------------------------------------------------
(* State methods, as functions of the store they read or write *)

is_country_ip(country, ip) ==
    IF country \notin DOMAIN country_prefixes THEN FALSE
    ELSE RangeContains(country_prefixes[country], ip)

\* authenticate without the is_banned test (the check_user_baned call is commented out)
authenticate_no_ban_check(us, login, password, nonce, ip) ==
    IF login \notin DOMAIN us THEN [users |-> us, ret |-> None]
    ELSE IF us[login].password # password THEN [users |-> us, ret |-> None]
    ELSE LET us2 == [us EXCEPT ![login].nonce = nonce]
         IN  IF ~is_country_ip(us2[login].country, ip)
             THEN [users |-> us2, ret |-> None]
             ELSE [users |-> us2,
                   ret |-> Some(Sign(ServiceKey, us2[login].login, us2[login].nonce))]

\* authenticate storing the nonce only once the geofence check has passed
authenticate_nonce_after_geofence(us, login, password, nonce, ip) ==
    IF login \notin DOMAIN us THEN [users |-> us, ret |-> None]
    ELSE IF us[login].password # password THEN [users |-> us, ret |-> None]
    ELSE IF us[login].is_banned THEN [users |-> us, ret |-> None]
    ELSE IF ~is_country_ip(us[login].country, ip) THEN [users |-> us, ret |-> None]
    ELSE [users |-> [us EXCEPT ![login].nonce = nonce],
          ret |-> Some(Sign(ServiceKey, us[login].login, nonce))]

\* returns [users, ret]: ret is Option<token>
authenticate(us, login, password, nonce, ip) ==
    IF login \notin DOMAIN us THEN [users |-> us, ret |-> None]
    ELSE IF us[login].password # password THEN [users |-> us, ret |-> None]
    ELSE IF us[login].is_banned THEN [users |-> us, ret |-> None]
    ELSE LET us2 == [us EXCEPT ![login].nonce = nonce]
         IN  IF ~is_country_ip(us2[login].country, ip)
             THEN [users |-> us2, ret |-> None]
             ELSE [users |-> us2,
                   ret |-> Some(Sign(ServiceKey, us2[login].login, us2[login].nonce))]

NewUser(login, password, name, phone, country) ==
    [login |-> login, password |-> password, name |-> name, phone |-> phone,
     country |-> country, is_admin |-> FALSE, is_banned |-> FALSE, nonce |-> ""]

\* DashMap::insert replaces the value of a key that is present
create_user(us, login, password, name, phone, country) ==
    [l \in DOMAIN us \cup {login} |->
        IF l = login THEN NewUser(login, password, name, phone, country) ELSE us[l]]

\* is_user_exists looking at the records that are not banned only
is_user_exists_not_banned(us, login) == login \in DOMAIN us /\ ~us[login].is_banned

is_user_exists(us, login) == login \in DOMAIN us

is_prop_admin_cred(us, login, ip) ==
    IF login \notin DOMAIN us THEN FALSE
    ELSE IF ~us[login].is_admin THEN FALSE
    ELSE is_country_ip(us[login].country, ip)

\* Option<String>: the serialized record (password is skip_serializing)
get_user(us, login, ip) ==
    IF login \notin DOMAIN us THEN None
    ELSE IF us[login].is_banned THEN None
    ELSE IF ~is_country_ip(us[login].country, ip) THEN None
    ELSE Some([login |-> us[login].login, name |-> us[login].name,
               phone |-> us[login].phone, country |-> us[login].country,
               is_admin |-> us[login].is_admin])

\* Option<()>: the result of is_country_ip is computed and dropped
is_proper_country(us, login, ip) ==
    IF login \notin DOMAIN us THEN None
    ELSE LET dropped == is_country_ip(us[login].country, ip)
         IN  Some(TRUE)

\* edit_user writing every field, an absent one as the empty string
edit_user_absent_as_empty(us, login, name, password, phone, is_admin, country) ==
    IF us[login].is_banned THEN [users |-> us, ret |-> None]
    ELSE [users |-> [us EXCEPT ![login].password = IF password = None THEN "" ELSE password[1],
                               ![login].name = IF name = None THEN "" ELSE name[1],
                               ![login].phone = IF phone = None THEN "" ELSE phone[1]],
          ret |-> Some(TRUE)]

\* edit_user setting is_admin whatever the record's own flag is
edit_user_promotes(us, login, name, password, phone, is_admin, country) ==
    IF us[login].is_banned THEN [users |-> us, ret |-> None]
    ELSE LET u0 == us[login]
             u1 == IF is_admin # None THEN [u0 EXCEPT !.is_admin = is_admin[1]] ELSE u0
             u4 == IF name # None THEN [u1 EXCEPT !.name = name[1]] ELSE u1
         IN  [users |-> [us EXCEPT ![login] = u4], ret |-> Some(TRUE)]

\* returns [users, ret]; every argument but login is an Option
edit_user(us, login, name, password, phone, is_admin, country) ==
    IF us[login].is_banned THEN [users |-> us, ret |-> None]
    ELSE LET u0 == us[login]
             u1 == IF is_admin # None /\ u0.is_admin
                   THEN [u0 EXCEPT !.is_admin = is_admin[1]] ELSE u0
             u2 == IF country # None THEN [u1 EXCEPT !.country = country[1]] ELSE u1
             u3 == IF password # None THEN [u2 EXCEPT !.password = password[1]] ELSE u2
             u4 == IF name # None THEN [u3 EXCEPT !.name = name[1]] ELSE u3
             u5 == IF phone # None THEN [u4 EXCEPT !.phone = phone[1]] ELSE u4
         IN  [users |-> [us EXCEPT ![login] = u5], ret |-> Some(TRUE)]

\* get_user_login that also requires the token's nonce to be the login's current nonce
get_user_login_live_nonce(us, jwt) ==
    LET claims == verify_token(ServiceKey, jwt)
    IN  IF claims = None THEN None
        ELSE IF claims[1] \notin DOMAIN us THEN None
        ELSE IF us[claims[1]].nonce # jwt.nonce THEN None
        ELSE claims

get_user_login(us, jwt) ==
    LET claims == verify_token(ServiceKey, jwt)
    IN  IF claims = None THEN None
        ELSE IF claims[1] \notin DOMAIN us THEN None
        ELSE claims

\* returns [users, ret]: ret is Option<bool>
ban_user(us, login) ==
    IF login \notin DOMAIN us THEN [users |-> us, ret |-> None]
    ELSE IF us[login].is_banned THEN [users |-> us, ret |-> Some(FALSE)]
    ELSE [users |-> [us EXCEPT ![login].is_banned = TRUE], ret |-> Some(TRUE)]

unban_user(us, login) ==
    IF login \notin DOMAIN us THEN [users |-> us, ret |-> None]
    ELSE IF ~us[login].is_banned THEN [users |-> us, ret |-> Some(FALSE)]
    ELSE [users |-> [us EXCEPT ![login].is_banned = FALSE], ret |-> Some(TRUE)]

SeqHas(s, x) == \E i \in 1..Len(s) : s[i] = x

\* Iterator::position: the first index holding x
Position(s, x) == CHOOSE i \in 1..Len(s) : s[i] = x /\ \A j \in 1..(i - 1) : s[j] # x

\* Vec::remove(idx)
RemoveAt(s, idx) == [i \in 1..(Len(s) - 1) |-> IF i < idx THEN s[i] ELSE s[i + 1]]

is_ip_banned(fbs, ip) ==
    IF ip[1] \notin DOMAIN fbs THEN FALSE
    ELSE \E i \in 1..Len(fbs[ip[1]]) : NetContains(fbs[ip[1]][i], ip)

\* returns [fbs, ret]
ban_subnet(fbs, network, mask) ==
    LET fb == network[1]
        subnet == Net(network, mask)
        cur == IF fb \in DOMAIN fbs THEN fbs[fb] ELSE << >>
    IN  IF SeqHas(cur, subnet) THEN [fbs |-> fbs, ret |-> FALSE]
        ELSE [fbs |-> [k \in DOMAIN fbs \cup {fb} |->
                          IF k = fb THEN Append(cur, subnet) ELSE fbs[k]],
              ret |-> TRUE]

\* DashMap::retain(|_k, v| !v.is_empty())
RetainNonEmpty(fbs) == [k \in {j \in DOMAIN fbs : fbs[j] # << >>} |-> fbs[k]]

\* retain dropping the key it visits whatever its list holds
retain_key_any(fbs, k) ==
    [j \in DOMAIN fbs \ {k} |-> fbs[j]]

\* what retain does at one key, under the lock of the key's shard
retain_key(fbs, k) ==
    IF k \in DOMAIN fbs /\ fbs[k] = << >> THEN [j \in DOMAIN fbs \ {k} |-> fbs[j]]
    ELSE fbs

\* unban_subnet up to the release of the get_mut guard (src/src/state.rs:308-332);
\* returns [fbs, root, ret, retain]
unban_subnet_locked(fbs, root, network, mask) ==
    LET fb == network[1]
        subnet == Net(network, mask)
        same == [fbs |-> fbs, root |-> root, ret |-> FALSE, retain |-> FALSE]
    IN  IF mask < 8
        THEN IF subnet \notin root THEN same
             ELSE [fbs |-> fbs, root |-> root \ {subnet}, ret |-> TRUE, retain |-> FALSE]
        ELSE IF fb \notin DOMAIN fbs THEN same
        ELSE IF ~SeqHas(fbs[fb], subnet) THEN same
        ELSE [fbs |-> [fbs EXCEPT ![fb] = RemoveAt(fbs[fb], Position(fbs[fb], subnet))],
              root |-> root, ret |-> TRUE, retain |-> TRUE]

\* returns [fbs, root, ret]
unban_subnet(fbs, root, network, mask) ==
    LET u == unban_subnet_locked(fbs, root, network, mask)
    IN  [fbs |-> IF u.retain THEN RetainNonEmpty(u.fbs) ELSE u.fbs,
         root |-> u.root, ret |-> u.ret]

----------------------------------------------------------------------------
(* Requests as process() sees them after the header block has parsed:      *)
(* kind is the Handler (or NoRoute for None), ip the x-forwarded-for       *)
(* address, tok the x-api-key token, arg the route parameters or the       *)
(* deserialized body (None when serde_json rejects the body).              *)

Req(kind, ip, tok, arg) == [kind |-> kind, ip |-> ip, tok |-> tok, arg |-> arg]

NoReq == Req("none", None, None, None)

TokenKinds == {"GetUser", "EditUser", "BlacklistUser", "UnblacklistUser",
               "BlacklistSubnet", "UnblacklistSubnet"}

AdminKinds == {"BlacklistUser", "UnblacklistUser", "BlacklistSubnet", "UnblacklistSubnet"}

\* what the clients of one specification send: bodies, route parameters,
\* addresses, and the logins whose token is used for EditUser
UserScenario ==
    [ reg |-> { [login |-> "alice", password |-> "p1", name |-> "Alice", phone |-> "111",
                 country |-> "US"] },
      auth |-> { [login |-> "alice", password |-> "p1", nonce |-> ""],
                 [login |-> "alice", password |-> "p1", nonce |-> "n1"],
                 [login |-> "root", password |-> "r1", nonce |-> ""] },
      edit |-> { [name |-> Some("Eve"), password |-> None, phone |-> Some("333")] },
      editors |-> {"alice"},
      targets |-> {"alice"},
      subnets |-> {},
      ips |-> {IpUS, IpOut} ]

\* registrations in an indexed and in a non-indexed country, right and wrong passwords
GeoScenario ==
    [ reg |-> { [login |-> "alice", password |-> "p1", name |-> "Alice", phone |-> "111",
                 country |-> "US"],
                [login |-> "alice", password |-> "p2", name |-> "Al", phone |-> "222",
                 country |-> "XX"] },
      auth |-> { [login |-> "alice", password |-> "p1", nonce |-> "n1"],
                 [login |-> "alice", password |-> "p2", nonce |-> "n1"],
                 [login |-> "root", password |-> "r1", nonce |-> ""] },
      edit |-> {},
      editors |-> {},
      targets |-> {"alice"},
      subnets |-> {},
      ips |-> {IpUS, IpOut} ]

\* route parameters {addr}/{mask}: the mask is any u8
AdminScenario ==
    [ reg |-> { [login |-> "alice", password |-> "p1", name |-> "Alice", phone |-> "111",
                 country |-> "US"] },
      auth |-> { [login |-> "alice", password |-> "p1", nonce |-> ""],
                 [login |-> "root", password |-> "r1", nonce |-> ""] },
      edit |-> {},
      editors |-> {},
      targets |-> {},
      subnets |-> { [addr |-> <<10, 200, 0, 0>>, mask |-> 16],
                    [addr |-> <<12, 0, 0, 0>>, mask |-> 7],
                    [addr |-> <<11, 0, 0, 0>>, mask |-> 33] },
      ips |-> {IpUS, IpUS2, IpOut} ]

\* tokens a client can hold without the service key: signed with another key,
\* or an issued token whose claims were rewritten while keeping its MAC
Forged(iss) ==
    {Sign(AttackerKey, "root", "")} \cup
    {[t EXCEPT !.login = "root"] : t \in {i \in iss : i.login = "alice" /\ i.nonce = ""}}

ArgsOf(sc, kind) ==
    CASE kind = "GetUser" -> {None}
      [] kind = "EditUser" -> {None} \cup {Some(b) : b \in sc.edit}
      [] kind \in {"BlacklistUser", "UnblacklistUser"} -> {Some(l) : l \in sc.targets}
      [] kind \in {"BlacklistSubnet", "UnblacklistSubnet"} -> {Some(n) : n \in sc.subnets}
      [] kind = "Auth" -> {None} \cup {Some(b) : b \in sc.auth}
      [] kind = "RegisterUser" -> {None} \cup {Some(b) : b \in sc.reg}
      [] OTHER -> {None}

\* one representative parameter per kind, for requests rejected before it is read
AnArg(kind) ==
    CASE kind = "EditUser" -> Some([name |-> Some("Eve"), password |-> None, phone |-> Some("333")])
      [] kind \in {"BlacklistUser", "UnblacklistUser"} -> Some("alice")
      [] kind \in {"BlacklistSubnet", "UnblacklistSubnet"} ->
             Some([addr |-> <<11, 0, 0, 0>>, mask |-> 8])
      [] kind = "Auth" -> Some([login |-> "root", password |-> "r1", nonce |-> ""])
      [] kind = "RegisterUser" ->
             Some([login |-> "alice", password |-> "p1", name |-> "Alice", phone |-> "111",
                   country |-> "US"])
      [] OTHER -> None

\* the requests of one kind the clients send, given the tokens handed out so far
Requests(sc, k, iss) ==
    IF k = "NoRoute" THEN {Req(k, Some(IpUS), None, None)}
    ELSE IF k \in {"Auth", "RegisterUser"}
    THEN {Req(k, None, None, AnArg(k))}
         \cup {Req(k, Some(ip), None, a) : ip \in sc.ips, a \in ArgsOf(sc, k)}
    ELSE {Req(k, None, None, AnArg(k))}
         \cup {Req(k, Some(ip), None, AnArg(k)) : ip \in sc.ips}
         \cup {Req(k, Some(IpUS), Some(f), AnArg(k)) : f \in Forged(iss)}
         \cup {Req(k, Some(ip), Some(tk), a) :
                   ip \in sc.ips,
                   tk \in {i \in iss : k = "EditUser" => i.login \in sc.editors},
                   a \in ArgsOf(sc, k)}

----------------------------------------------------------------------------
(* ConnectionProcessor::process, from the end of body reading to the       *)
(* response.  A result is [users, fbs, root, code, out].                   *)

Result(us, fbs, root, code, out) ==
    [users |-> us, fbs |-> fbs, root |-> root, code |-> code, out |-> out]

\* the checks every routed request passes first, without the one of the ban store
admit_any_ip(fbs, r) ==
    IF r.kind = "NoRoute" THEN 404
    ELSE IF r.ip = None THEN 403
    ELSE 0

\* the checks every routed request passes first; 0 = go on
admit(fbs, r) ==
    IF r.kind = "NoRoute" THEN 404
    ELSE IF r.ip = None THEN 403
    ELSE IF is_ip_banned(fbs, r.ip[1]) THEN 403
    ELSE 0

\* the bearer-token checks answering 403 for a token that does not verify
token_gate_forbids(us, r) ==
    IF r.tok = None THEN 403
    ELSE IF get_user_login(us, r.tok[1]) = None THEN 403
    ELSE IF is_proper_country(us, get_user_login(us, r.tok[1])[1], r.ip[1]) = None THEN 403
    ELSE 0

\* the bearer-token checks of the remaining kinds; 0 = go on
token_gate(us, r) ==
    IF r.tok = None THEN 403
    ELSE IF get_user_login(us, r.tok[1]) = None THEN 400
    ELSE IF is_proper_country(us, get_user_login(us, r.tok[1])[1], r.ip[1]) = None THEN 403
    ELSE 0

handle_auth(us, fbs, root, r) ==
    IF r.arg = None THEN Result(us, fbs, root, 400, None)
    ELSE LET a == authenticate(us, r.arg[1].login, r.arg[1].password, r.arg[1].nonce, r.ip[1])
         IN  IF a.ret # None THEN Result(a.users, fbs, root, 200, a.ret)
             ELSE Result(a.users, fbs, root, 403, None)

handle_get_user(us, fbs, root, r, login) ==
    LET g == get_user(us, login, r.ip[1])
    IN  IF g = None THEN Result(us, fbs, root, 403, None)
        ELSE Result(us, fbs, root, 200, g)

\* the call site passes name, password and phone only
handle_edit_user(us, fbs, root, r, login) ==
    IF r.arg = None THEN Result(us, fbs, root, 400, None)
    ELSE LET e == edit_user(us, login, r.arg[1].name, r.arg[1].password, r.arg[1].phone,
                            None, None)
         IN  IF e.ret = None THEN Result(us, fbs, root, 403, None)
             ELSE Result(e.users, fbs, root, 202, None)

handle_blacklist_user(us, fbs, root, r, login) ==
    IF ~is_prop_admin_cred(us, login, r.ip[1]) THEN Result(us, fbs, root, 403, None)
    ELSE LET b == ban_user(us, r.arg[1])
         IN  IF b.ret = None THEN Result(us, fbs, root, 404, None)
             ELSE IF b.ret[1] THEN Result(b.users, fbs, root, 201, None)
             ELSE Result(b.users, fbs, root, 409, None)

handle_unblacklist_user(us, fbs, root, r, login) ==
    IF ~is_prop_admin_cred(us, login, r.ip[1]) THEN Result(us, fbs, root, 403, None)
    ELSE LET b == unban_user(us, r.arg[1])
         IN  IF b.ret = None THEN Result(us, fbs, root, 404, None)
             ELSE IF b.ret[1] THEN Result(b.users, fbs, root, 204, None)
             ELSE Result(b.users, fbs, root, 404, None)

handle_blacklist_subnet(us, fbs, root, r, login) ==
    IF ~is_prop_admin_cred(us, login, r.ip[1]) THEN Result(us, fbs, root, 403, None)
    ELSE IF ~NetNewOk(r.arg[1].mask) THEN Result(us, fbs, root, 400, None)
    ELSE LET b == ban_subnet(fbs, r.arg[1].addr, r.arg[1].mask)
         IN  IF b.ret THEN Result(us, b.fbs, root, 201, None)
             ELSE Result(us, b.fbs, root, 409, None)

handle_unblacklist_subnet(us, fbs, root, r, login) ==
    IF ~is_prop_admin_cred(us, login, r.ip[1]) THEN Result(us, fbs, root, 403, None)
    ELSE IF ~NetNewOk(r.arg[1].mask) THEN Result(us, fbs, root, 400, None)
    ELSE LET b == unban_subnet(fbs, root, r.arg[1].addr, r.arg[1].mask)
         IN  IF b.ret THEN Result(us, b.fbs, b.root, 204, None)
             ELSE Result(us, b.fbs, b.root, 409, None)

\* one request other than RegisterUser, from admission to the response
dispatch(us, fbs, root, r) ==
    IF admit(fbs, r) # 0 THEN Result(us, fbs, root, admit(fbs, r), None)
    ELSE IF r.kind = "Auth" THEN handle_auth(us, fbs, root, r)
    ELSE IF token_gate(us, r) # 0 THEN Result(us, fbs, root, token_gate(us, r), None)
    ELSE LET login == get_user_login(us, r.tok[1])[1]
         IN  CASE r.kind = "GetUser" -> handle_get_user(us, fbs, root, r, login)
               [] r.kind = "EditUser" -> handle_edit_user(us, fbs, root, r, login)
               [] r.kind = "BlacklistUser" -> handle_blacklist_user(us, fbs, root, r, login)
               [] r.kind = "UnblacklistUser" -> handle_unblacklist_user(us, fbs, root, r, login)
               [] r.kind = "BlacklistSubnet" -> handle_blacklist_subnet(us, fbs, root, r, login)
               [] r.kind = "UnblacklistSubnet" ->
                      handle_unblacklist_subnet(us, fbs, root, r, login)

----------------------------------------------------------------------------
(* ShardedPrefixSet (src/src/sharded_prefix_set.rs).  An IpRange is the set  *)
(* of the followed addresses it covers: add is the union with a network's    *)
(* addresses, remove the difference, whatever the prefix lengths involved.   *)

SHARD_AMOUNT_SHIFT == 7

Shards == 0..(2 ^ SHARD_AMOUNT_SHIFT - 1)

\* the addresses whose membership is followed
PrefixAddrs == {<<8, 0, 0, 1>>, IpUS, IpOut, <<200, 1, 1, 1>>}

AddrsOf(net) == {a \in PrefixAddrs : NetContains(net, a)}

IpRange_new == {}

IpRange_add(range, net) == range \cup AddrsOf(net)

IpRange_remove(range, net) == range \ AddrsOf(net)

\* asked only for the /32 of a followed address
IpRange_contains(range, net) == AddrsOf(net) # {} /\ AddrsOf(net) \subseteq range

ShardedPrefixSet_new == [i \in Shards |-> IpRange_new]

\* octets()[0] >> (8 - SHARD_AMOUNT_SHIFT)
shard_id(subnet) ==
    subnet.addr[1] \div (2 ^ (8 - SHARD_AMOUNT_SHIFT))

contains(ps, subnet) == IpRange_contains(ps[shard_id(subnet)], subnet)

insert(ps, subnet) ==
    [ps EXCEPT ![shard_id(subnet)] = IpRange_add(ps[shard_id(subnet)], subnet)]

remove(ps, subnet) ==
    [ps EXCEPT ![shard_id(subnet)] = IpRange_remove(ps[shard_id(subnet)], subnet)]

\* no thread is inside a State method
NoGuards == held = [t \in Threads |-> {}]

\* no ShardedPrefixSet call was made
NoPrefixSet ==
    /\ prefix_set = ShardedPrefixSet_new
    /\ range_ref = IpRange_new

----------------------------------------------------------------------------
(* The state machine *)

\* the record of a step: the request, the response written (0: none yet), its body
Done(r, code, out) ==
    [kind |-> r.kind, ip |-> r.ip, tok |-> r.tok, arg |-> r.arg, code |-> code, out |-> out]

\* the record of a direct call of a State method
Called(name, arg, ret, pre) == [kind |-> name, arg |-> arg, ret |-> ret, pre |-> pre]

\* no connection is being followed
NoConnection ==
    /\ wire = << >>
    /\ peer = "open"
    /\ rdpos = 0
    /\ buf = [from |-> 0, len |-> 0]
    /\ cp = "none"
    /\ parsed = None
    /\ written = << >>

Init ==
    /\ users = read_users
    /\ first_byte_banned_subnets = << >>
    /\ root_banned_subnets = {}
    /\ pc = [t \in Threads |-> "idle"]
    /\ pending = [t \in Threads |-> NoReq]
    /\ issued = {}
    /\ banned_ref = {}
    /\ user_ban = {}
    /\ last = Done(NoReq, 0, None)
    /\ NoConnection
    /\ NoPrefixSet
    /\ NoGuards

\* an idle worker thread reads one request and runs it to its response (src/src/service.rs:150-353)
Serve(r) ==
    /\ \E t \in Threads : pc[t] = "idle"
    /\ LET res == dispatch(users, first_byte_banned_subnets, root_banned_subnets, r)
       IN  /\ users' = res.users
           /\ first_byte_banned_subnets' = res.fbs
           /\ root_banned_subnets' = res.root
           /\ issued' = IF r.kind = "Auth" /\ res.code = 200
                        THEN issued \cup {res.out[1]} ELSE issued
           /\ user_ban' = IF r.kind = "BlacklistUser" /\ res.code = 201
                          THEN user_ban \cup {r.arg[1]}
                          ELSE IF r.kind = "UnblacklistUser" /\ res.code = 204
                          THEN user_ban \ {r.arg[1]}
                          ELSE user_ban
           /\ banned_ref' = IF r.kind = "BlacklistSubnet" /\ res.code \in {201, 409}
                            THEN banned_ref \cup {Net(r.arg[1].addr, r.arg[1].mask)}
                            ELSE IF r.kind = "UnblacklistSubnet" /\ res.code \in {204, 409}
                            THEN banned_ref \ {Net(r.arg[1].addr, r.arg[1].mask)}
                            ELSE banned_ref
           /\ last' = Done(r, res.code, res.out)
    /\ UNCHANGED <<pc, pending>>
    /\ UNCHANGED <<conn_vars, set_vars, held>>

NoRoute(r) == Serve(r)

Auth(r) == Serve(r)

GetUser(r) == Serve(r)

EditUser(r) == Serve(r)

BlacklistUser(r) == Serve(r)

UnblacklistUser(r) == Serve(r)

BlacklistSubnet(r) == Serve(r)

UnblacklistSubnet(r) == Serve(r)

\* RegisterUser up to and including is_user_exists (src/src/service.rs:150-211);
\* a request that passes it goes on in CreateUser
RegisterUser(t, r) ==
    /\ pc[t] = "idle"
    /\ LET code == IF admit(first_byte_banned_subnets, r) # 0
                   THEN admit(first_byte_banned_subnets, r)
                   ELSE IF r.arg = None THEN 400
                   ELSE IF is_user_exists(users, r.arg[1].login) THEN 409
                   ELSE 0
       IN  /\ pc' = [pc EXCEPT ![t] = IF code = 0 THEN "create" ELSE "idle"]
           /\ pending' = [pending EXCEPT ![t] = IF code = 0 THEN r ELSE NoReq]
           /\ last' = Done(r, code, None)
    /\ UNCHANGED <<users, first_byte_banned_subnets, root_banned_subnets,
                   issued, banned_ref, user_ban>>
    /\ UNCHANGED <<conn_vars, set_vars, held>>

\* the rest of RegisterUser: create_user and the 201 (src/src/service.rs:213-223)
CreateUser(t) ==
    /\ pc[t] = "create"
    /\ LET b == pending[t].arg[1]
       IN  users' = create_user(users, b.login, b.password, b.name, b.phone, b.country)
    /\ pc' = [pc EXCEPT ![t] = "idle"]
    /\ pending' = [pending EXCEPT ![t] = NoReq]
    /\ last' = Done(pending[t], 201, None)
    /\ UNCHANGED <<first_byte_banned_subnets, root_banned_subnets,
                   issued, banned_ref, user_ban>>
    /\ UNCHANGED <<conn_vars, set_vars, held>>

\* user lifecycle over HTTP
Next ==
    \/ \E t \in Threads : CreateUser(t)
    \/ \E t \in Threads : \E r \in Requests(UserScenario, "RegisterUser", issued) :
          RegisterUser(t, r)
    \/ \E r \in Requests(UserScenario, "NoRoute", issued) : NoRoute(r)
    \/ \E r \in Requests(UserScenario, "Auth", issued) : Auth(r)
    \/ \E r \in Requests(UserScenario, "GetUser", issued) : GetUser(r)
    \/ \E r \in Requests(UserScenario, "EditUser", issued) : EditUser(r)
    \/ \E r \in Requests(UserScenario, "BlacklistUser", issued) : BlacklistUser(r)
    \/ \E r \in Requests(UserScenario, "UnblacklistUser", issued) : UnblacklistUser(r)

Spec == Init /\ [][Next]_vars

\* authentication against the geo index over HTTP
NextGeo ==
    \/ \E t \in Threads : CreateUser(t)
    \/ \E t \in Threads : \E r \in Requests(GeoScenario, "RegisterUser", issued) :
          RegisterUser(t, r)
    \/ \E r \in Requests(GeoScenario, "Auth", issued) : Auth(r)
    \/ \E r \in Requests(GeoScenario, "GetUser", issued) : GetUser(r)
    \/ \E r \in Requests(GeoScenario, "BlacklistUser", issued) : BlacklistUser(r)
    \/ \E r \in Requests(GeoScenario, "UnblacklistUser", issued) : UnblacklistUser(r)

SpecGeo == Init /\ [][NextGeo]_vars

\* subnet administration over HTTP
NextAdmin ==
    \/ \E t \in Threads : CreateUser(t)
    \/ \E t \in Threads : \E r \in Requests(AdminScenario, "RegisterUser", issued) :
          RegisterUser(t, r)
    \/ \E r \in Requests(AdminScenario, "Auth", issued) : Auth(r)
    \/ \E r \in Requests(AdminScenario, "GetUser", issued) : GetUser(r)
    \/ \E r \in Requests(AdminScenario, "BlacklistSubnet", issued) : BlacklistSubnet(r)
    \/ \E r \in Requests(AdminScenario, "UnblacklistSubnet", issued) : UnblacklistSubnet(r)

SpecAdmin == Init /\ [][NextAdmin]_vars

\* an administrator among the targets of BanUser and UnbanUser
SelfBanScenario ==
    [ reg |-> {},
      auth |-> { [login |-> "root", password |-> "r1", nonce |-> ""] },
      edit |-> {},
      editors |-> {},
      targets |-> {"root", "alice"},
      subnets |-> { [addr |-> <<10, 200, 0, 0>>, mask |-> 16] },
      ips |-> {IpUS} ]

\* administration by an administrator that can be banned
NextSelfBan ==
    \/ \E r \in Requests(SelfBanScenario, "Auth", issued) : Auth(r)
    \/ \E r \in Requests(SelfBanScenario, "GetUser", issued) : GetUser(r)
    \/ \E r \in Requests(SelfBanScenario, "BlacklistUser", issued) : BlacklistUser(r)
    \/ \E r \in Requests(SelfBanScenario, "UnblacklistUser", issued) : UnblacklistUser(r)
    \/ \E r \in Requests(SelfBanScenario, "BlacklistSubnet", issued) : BlacklistSubnet(r)
    \/ \E r \in Requests(SelfBanScenario, "UnblacklistSubnet", issued) : UnblacklistSubnet(r)

SpecSelfBan == Init /\ [][NextSelfBan]_vars

----------------------------------------------------------------------------
(* The banned-subnet store on its own: direct calls of its three methods *)

StoreSubnets ==
    { Net(<<10, 0, 0, 0>>, 7), Net(<<10, 0, 0, 0>>, 8), Net(<<10, 1, 0, 0>>, 16),
      Net(<<11, 0, 0, 1>>, 32), Net(<<0, 0, 0, 0>>, 0) }

StoreAddrs == {IpUS, IpUS2, IpOut, <<200, 1, 1, 1>>}

UnchangedService ==
    /\ UNCHANGED <<users, pc, pending, issued, user_ban>>
    /\ UNCHANGED <<conn_vars, set_vars, held>>

CallBanSubnet(s) ==
    /\ LET b == ban_subnet(first_byte_banned_subnets, s.addr, s.len)
       IN  /\ first_byte_banned_subnets' = b.fbs
           /\ last' = Called("ban_subnet", s, b.ret, first_byte_banned_subnets)
    /\ banned_ref' = banned_ref \cup {s}
    /\ UNCHANGED root_banned_subnets
    /\ UnchangedService

CallUnbanSubnet(s) ==
    /\ LET u == unban_subnet(first_byte_banned_subnets, root_banned_subnets, s.addr, s.len)
       IN  /\ first_byte_banned_subnets' = u.fbs
           /\ root_banned_subnets' = u.root
           /\ last' = Called("unban_subnet", s, u.ret, first_byte_banned_subnets)
    /\ banned_ref' = banned_ref \ {s}
    /\ UnchangedService

CallIsIpBanned(a) ==
    /\ last' = Called("is_ip_banned", a, is_ip_banned(first_byte_banned_subnets, a),
                      first_byte_banned_subnets)
    /\ UNCHANGED <<first_byte_banned_subnets, root_banned_subnets, banned_ref>>
    /\ UnchangedService

NextStore ==
    \/ \E s \in StoreSubnets : CallBanSubnet(s) \/ CallUnbanSubnet(s)
    \/ \E a \in StoreAddrs : CallIsIpBanned(a)

SpecStore == Init /\ [][NextStore]_vars

----------------------------------------------------------------------------
(* ShardedPrefixSet on its own: direct calls of its three methods *)

PrefixSubnets ==
    { Net(<<0, 0, 0, 0>>, 0), Net(<<8, 0, 0, 0>>, 6), Net(<<10, 0, 0, 0>>, 7),
      Net(<<10, 0, 0, 0>>, 8), Net(<<10, 1, 0, 5>>, 32), Net(<<200, 1, 0, 0>>, 16) }

UnchangedStore ==
    /\ UNCHANGED <<first_byte_banned_subnets, root_banned_subnets, banned_ref>>
    /\ UNCHANGED <<users, pc, pending, issued, user_ban>>
    /\ UNCHANGED <<conn_vars, held>>

CallInsert(s) ==
    /\ prefix_set' = insert(prefix_set, s)
    /\ range_ref' = IpRange_add(range_ref, s)
    /\ last' = Called("insert", s, None, None)
    /\ UnchangedStore

CallRemove(s) ==
    /\ prefix_set' = remove(prefix_set, s)
    /\ range_ref' = IpRange_remove(range_ref, s)
    /\ last' = Called("remove", s, None, None)
    /\ UnchangedStore

CallContains(a) ==
    /\ last' = Called("contains", a, contains(prefix_set, Net(a, 32)), None)
    /\ UNCHANGED set_vars
    /\ UnchangedStore

NextPrefixSet ==
    \/ \E s \in PrefixSubnets : CallInsert(s) \/ CallRemove(s)
    \/ \E a \in PrefixAddrs : CallContains(a)

SpecPrefixSet == Init /\ [][NextPrefixSet]_vars

----------------------------------------------------------------------------
(* The user store on its own: direct calls of the State methods that write *)
(* users, each one DashMap operation, in any order.                        *)

UsersLogins == {"root", "alice"}

UsersOptions == {None, Some(TRUE), Some(FALSE)}

UsersNames == {None, Some("Eve")}

UnchangedButUsers ==
    /\ UNCHANGED <<first_byte_banned_subnets, root_banned_subnets, banned_ref>>
    /\ UNCHANGED <<pc, pending, issued, user_ban>>
    /\ UNCHANGED <<conn_vars, set_vars, held>>

CallCreateUser ==
    /\ users' = create_user(users, "alice", "p1", "Alice", "111", "US")
    /\ last' = Called("create_user", "alice", None, None)
    /\ UnchangedButUsers

CallAuthenticate(l) ==
    /\ LET a == authenticate(users, l, "p1", "n1", IpUS)
       IN  /\ users' = a.users
           /\ last' = Called("authenticate", l, a.ret, None)
    /\ UnchangedButUsers

\* get_mut(&login).unwrap(): the handler calls it for a login get_user_login found
CallEditUser(l, name, is_admin) ==
    /\ l \in DOMAIN users
    /\ LET e == edit_user(users, l, name, None, None, is_admin, None)
       IN  /\ users' = e.users
           /\ last' = Called("edit_user", [login |-> l, name |-> name, is_admin |-> is_admin],
                             e.ret, users[l].is_admin)
    /\ UnchangedButUsers

CallBanUser(l) ==
    /\ LET b == ban_user(users, l)
       IN  /\ users' = b.users
           /\ last' = Called("ban_user", l, b.ret, None)
    /\ UnchangedButUsers

CallUnbanUser(l) ==
    /\ LET b == unban_user(users, l)
       IN  /\ users' = b.users
           /\ last' = Called("unban_user", l, b.ret, None)
    /\ UnchangedButUsers

NextUsers ==
    \/ CallCreateUser
    \/ \E l \in UsersLogins : CallAuthenticate(l)
    \/ \E l \in UsersLogins : \E n \in UsersNames : \E a \in UsersOptions :
          CallEditUser(l, n, a)
    \/ \E l \in UsersLogins : CallBanUser(l)
    \/ \E l \in UsersLogins : CallUnbanUser(l)

SpecUsers == Init /\ [][NextUsers]_vars

----------------------------------------------------------------------------
(* The banned-subnet store under two threads: ban_subnet is one step (the    *)
(* entry guard is held from the scan to the push), unban_subnet is the step  *)
(* under the get_mut guard followed by retain, which visits the keys one     *)
(* lock at a time.                                                          *)

RaceSubnets == {Net(<<10, 0, 0, 0>>, 8), Net(<<10, 0, 0, 0>>, 7), Net(<<11, 0, 0, 1>>, 32)}

\* the keys retain can come across
RaceOctets == {s.addr[1] : s \in RaceSubnets}

UnchangedButStore ==
    /\ UNCHANGED <<users, issued, user_ban>>
    /\ UNCHANGED <<conn_vars, set_vars, held>>

ThreadBanSubnet(t, s) ==
    /\ pc[t] = "idle"
    /\ LET b == ban_subnet(first_byte_banned_subnets, s.addr, s.len)
       IN  /\ first_byte_banned_subnets' = b.fbs
           /\ last' = Called("ban_subnet", s, b.ret, t)
    /\ banned_ref' = banned_ref \cup {s}
    /\ UNCHANGED <<root_banned_subnets, pc, pending>>
    /\ UnchangedButStore

ThreadUnbanSubnet(t, s) ==
    /\ pc[t] = "idle"
    /\ LET u == unban_subnet_locked(first_byte_banned_subnets, root_banned_subnets,
                                    s.addr, s.len)
       IN  /\ first_byte_banned_subnets' = u.fbs
           /\ root_banned_subnets' = u.root
           /\ last' = Called("unban_subnet", s, u.ret, t)
           /\ pc' = [pc EXCEPT ![t] = IF u.retain THEN "retain" ELSE "idle"]
           /\ pending' = [pending EXCEPT ![t] =
                             IF u.retain THEN Req("retain", None, None, Some(RaceOctets))
                             ELSE NoReq]
    /\ banned_ref' = banned_ref \ {s}
    /\ UnchangedButStore

\* retain visits one more key; after the last one unban_subnet returns
ThreadRetain(t, k) ==
    /\ pc[t] = "retain"
    /\ k \in pending[t].arg[1]
    /\ first_byte_banned_subnets' = retain_key(first_byte_banned_subnets, k)
    /\ LET todo == pending[t].arg[1] \ {k}
       IN  /\ pc' = [pc EXCEPT ![t] = IF todo = {} THEN "idle" ELSE "retain"]
           /\ pending' = [pending EXCEPT ![t] =
                             IF todo = {} THEN NoReq
                             ELSE Req("retain", None, None, Some(todo))]
    /\ last' = Called("retain", k, None, t)
    /\ UNCHANGED <<root_banned_subnets, banned_ref>>
    /\ UnchangedButStore

NextRace ==
    \/ \E t \in Threads : \E s \in RaceSubnets : ThreadBanSubnet(t, s)
    \/ \E t \in Threads : \E s \in RaceSubnets : ThreadUnbanSubnet(t, s)
    \/ \E t \in Threads : \E k \in RaceOctets : ThreadRetain(t, k)

SpecRace == Init /\ [][NextRace]_vars

----------------------------------------------------------------------------
(* The DashMap guards of the State methods.  A call asks for the guard of   *)
(* the shard its key lives in (get and is_ip_banned's get for reading, the  *)
(* others for writing), does its work under the guard and drops it before   *)
(* it returns; unban_subnet drops its get_mut guard at the end of the inner *)
(* block and then, after a removal, retain takes the write guard of every   *)
(* shard of first_byte_banned_subnets, one after the other.  Every key is   *)
(* given a shard of its own.                                                *)

GuardLogins == {"root", "alice"}

GuardSubnets == {Net(<<10, 200, 0, 0>>, 16), Net(<<11, 0, 0, 1>>, 32)}

\* the shards retain walks through
GuardOctets == {s.addr[1] : s \in GuardSubnets}

UserMethods == {"authenticate", "get_user", "edit_user", "ban_user", "unban_user"}

GuardCalls ==
    {Req(m, None, None, Some(l)) : m \in UserMethods \ {"edit_user"}, l \in GuardLogins}
    \cup {Req("edit_user", None, None, Some("root"))}
    \cup {Req("is_ip_banned", None, None, Some(s.addr)) : s \in GuardSubnets}
    \cup {Req(m, None, None, Some(s)) : m \in {"ban_subnet", "unban_subnet"}, s \in GuardSubnets}

\* the key a call was made for: a login, or the first octet of an address
call_key(r) ==
    IF r.kind \in UserMethods THEN <<"users", r.arg[1]>>
    ELSE IF r.kind = "is_ip_banned" THEN <<"fbs", r.arg[1][1]>>
    ELSE IF r.kind = "retain" THEN <<"fbs", r.arg[1].key>>
    ELSE <<"fbs", r.arg[1].addr[1]>>

\* the shard whose guard the call is asking for or holding
guard(r) == IF r.kind = "retain" THEN <<"fbs", r.arg[1].at>> ELSE call_key(r)

\* get() takes the shard's lock shared, every other access exclusive
shared(r) == r.kind \in {"get_user", "is_ip_banned"}

\* thread u's guard keeps thread t from taking the one it asks for
blocks(u, t) ==
    /\ guard(pending[t]) \in held[u]
    /\ ~(u # t /\ shared(pending[t]) /\ shared(pending[u]))

\* retain's walk: the shard visited next, the shards still to visit, and
\* the key unban_subnet was called for
RetainAt(key, k, todo) ==
    Req("retain", None, None, Some([key |-> key, at |-> k, todo |-> todo]))

\* a State method is called and asks for its guard
ThreadCall(t, r) ==
    /\ pc[t] = "idle"
    /\ pc' = [pc EXCEPT ![t] = "waiting"]
    /\ pending' = [pending EXCEPT ![t] = r]
    /\ UNCHANGED <<users, first_byte_banned_subnets, root_banned_subnets, banned_ref,
                   issued, user_ban, last, held>>
    /\ UNCHANGED <<conn_vars, set_vars>>

\* the guard is granted
ThreadLock(t) ==
    /\ pc[t] = "waiting"
    /\ \A u \in Threads : ~blocks(u, t)
    /\ pc' = [pc EXCEPT ![t] = "locked"]
    /\ held' = [held EXCEPT ![t] = held[t] \cup {guard(pending[t])}]
    /\ UNCHANGED <<users, first_byte_banned_subnets, root_banned_subnets, banned_ref,
                   issued, user_ban, last, pending>>
    /\ UNCHANGED <<conn_vars, set_vars>>

\* the users map after the method ran under its guard
users_after(r) ==
    LET l == r.arg[1]
    IN  IF r.kind = "authenticate"
        THEN authenticate(users, l, RootUser.password, "", IpUS).users
        ELSE IF r.kind = "edit_user"
        THEN edit_user(users, l, Some("Eve"), None, None, None, None).users
        ELSE IF r.kind = "ban_user" THEN ban_user(users, l).users
        ELSE IF r.kind = "unban_user" THEN unban_user(users, l).users
        ELSE users

\* the work under the guard, and the guard's drop; after a removal
\* unban_subnet goes on to retain, and retain to its next shard
ThreadUnlock(t) ==
    /\ pc[t] = "locked"
    /\ held' = [held EXCEPT ![t] = held[t] \ {guard(pending[t])}]
    /\ LET r == pending[t]
           u == unban_subnet_locked(first_byte_banned_subnets, root_banned_subnets,
                                    r.arg[1].addr, r.arg[1].len)
       IN  /\ users' = users_after(r)
           /\ first_byte_banned_subnets' =
                 IF r.kind = "ban_subnet"
                 THEN ban_subnet(first_byte_banned_subnets, r.arg[1].addr, r.arg[1].len).fbs
                 ELSE IF r.kind = "unban_subnet" THEN u.fbs
                 ELSE IF r.kind = "retain"
                 THEN retain_key(first_byte_banned_subnets, r.arg[1].at)
                 ELSE first_byte_banned_subnets
           /\ banned_ref' = IF r.kind = "ban_subnet" THEN banned_ref \cup {r.arg[1]}
                            ELSE IF r.kind = "unban_subnet" THEN banned_ref \ {r.arg[1]}
                            ELSE banned_ref
           /\ IF r.kind = "unban_subnet" /\ u.retain
              THEN /\ pc' = [pc EXCEPT ![t] = "waiting"]
                   /\ \E k \in GuardOctets :
                         pending' = [pending EXCEPT ![t] =
                                        RetainAt(r.arg[1].addr[1], k, GuardOctets \ {k})]
              ELSE IF r.kind = "retain" /\ r.arg[1].todo # {}
              THEN /\ pc' = [pc EXCEPT ![t] = "waiting"]
                   /\ \E k \in r.arg[1].todo :
                         pending' = [pending EXCEPT ![t] =
                                        RetainAt(r.arg[1].key, k, r.arg[1].todo \ {k})]
              ELSE /\ pc' = [pc EXCEPT ![t] = "idle"]
                   /\ pending' = [pending EXCEPT ![t] = NoReq]
    /\ UNCHANGED <<root_banned_subnets, issued, user_ban, last>>
    /\ UNCHANGED <<conn_vars, set_vars>>

NextGuards ==
    \/ \E t \in Threads : \E r \in GuardCalls : ThreadCall(t, r)
    \/ \E t \in Threads : ThreadLock(t)
    \/ \E t \in Threads : ThreadUnlock(t)

SpecGuards == Init /\ [][NextGuards]_vars

\* every thread keeps running, and a guard that is free again and again
\* is in the end granted to the thread asking for it
FairGuards ==
    \A t \in Threads : WF_vars(ThreadUnlock(t)) /\ SF_vars(ThreadLock(t))

SpecGuardsFair == SpecGuards /\ FairGuards

----------------------------------------------------------------------------
(* The router, Handler::new.  A url is the sequence of the pieces            *)
(* url.split('/') yields (never empty: "" splits into one empty piece), a    *)
(* method is the name of an http::Method.                                    *)

Methods == {"POST", "GET", "PUT", "PATCH", "DELETE"}

\* the decimal texts among the pieces and the number each denotes
DecimalValue == [s \in {"11", "256"} |-> IF s = "11" THEN 11 ELSE 256]

\* str::parse::<u8>: Err for text that is not a number and for a number above u8::MAX
parse_u8(s) ==
    IF s \notin DOMAIN DecimalValue THEN None
    ELSE IF DecimalValue[s] > 255 THEN None
    ELSE Some(DecimalValue[s])

\* a Handler: its variant and the variant's fields
H(kind, params) == [kind |-> kind, params |-> params]

\* Option<Handler>; splitted.next() is url[i] while i <= Len(url), None after
Handler_new(method, url) ==
    IF Len(url) < 2 THEN None
    ELSE CASE url[2] = "auth" ->
                 IF method # "POST" THEN None
                 ELSE IF Len(url) >= 3 THEN None
                 ELSE Some(H("Auth", << >>))
           [] url[2] = "user" ->
                 IF Len(url) >= 3 THEN None
                 ELSE CASE method = "PUT" -> Some(H("RegisterUser", << >>))
                        [] method = "GET" -> Some(H("GetUser", << >>))
                        [] method = "PATCH" -> Some(H("EditUser", << >>))
                        [] OTHER -> None
           [] url[2] = "blacklist" ->
                 IF Len(url) < 3 THEN None
                 ELSE CASE url[3] = "subnet" ->
                             IF Len(url) < 4 THEN None
                             ELSE IF Len(url) < 5 THEN None
                             ELSE IF parse_u8(url[5]) = None THEN None
                             ELSE IF Len(url) >= 6 THEN None
                             ELSE CASE method = "PUT" ->
                                         Some(H("BlacklistSubnet",
                                                <<url[4], parse_u8(url[5])[1]>>))
                                    [] method = "DELETE" ->
                                         Some(H("UnblacklistSubnet",
                                                <<url[4], parse_u8(url[5])[1]>>))
                                    [] OTHER -> None
                        [] url[3] = "user" ->
                             IF Len(url) < 4 THEN None
                             ELSE IF Len(url) >= 5 THEN None
                             ELSE CASE method = "PUT" -> Some(H("BlacklistUser", <<url[4]>>))
                                    [] method = "DELETE" ->
                                         Some(H("UnblacklistUser", <<url[4]>>))
                                    [] OTHER -> None
                        [] OTHER -> None
           [] OTHER -> None

\* the pieces the urls of the router's callers are made of
Pieces == {"", "auth", "user", "blacklist", "subnet", "11", "256"}

MaxTail == 3

SeqsUpTo(S, n) == UNION {[1..k -> S] : k \in 0..n}

\* urls: a beginning of a table shape, or of one without the leading '/',
\* followed by up to MaxTail arbitrary pieces
Urls ==
    { h \o t : h \in { << >>, <<"">>, <<"auth">>, <<"", "blacklist">>,
                       <<"", "blacklist", "user">>, <<"", "blacklist", "subnet">>,
                       <<"user", "blacklist", "user">> },
               t \in SeqsUpTo(Pieces, MaxTail) } \ {<< >>}

InitRouter ==
    /\ users = read_users
    /\ first_byte_banned_subnets = << >>
    /\ root_banned_subnets = {}
    /\ pc = [t \in Threads |-> "idle"]
    /\ pending = [t \in Threads |-> NoReq]
    /\ issued = {}
    /\ banned_ref = {}
    /\ user_ban = {}
    /\ \E m \in Methods : \E u \in Urls :
          last = Called("input", [method |-> m, url |-> u], None, None)
    /\ NoConnection
    /\ NoPrefixSet
    /\ NoGuards

\* the header loop's call Handler::new(&method, req.path) (src/src/service.rs:95)
CallHandlerNew ==
    /\ last.kind = "input"
    /\ last' = Called("Handler::new", last.arg, Handler_new(last.arg.method, last.arg.url), None)
    /\ UNCHANGED <<first_byte_banned_subnets, root_banned_subnets, banned_ref>>
    /\ UnchangedService

NextRouter == CallHandlerNew

SpecRouter == InitRouter /\ [][NextRouter]_vars

----------------------------------------------------------------------------
(* One connection: what its peer sends.  A request on the wire is            *)
(* [method, url, headers, body, body_bytes, line_bytes, ok]: headers is the   *)
(* sequence of [name, value], a name the sequence of its characters, a value  *)
(* its length in bytes together with what each parser the code applies to it  *)
(* reads out of it; body is the JSON object the body bytes spell (None: they  *)
(* spell none); ok says whether httparse accepts the request head.            *)

MAX_HEADERS == 256
MAX_TOKEN_LEN == 256
MAX_IP_LEN == 16
MAX_HEADER_SIZE == 10240
MAX_BODY_SIZE == 102400

\* StackLowerCaseStr::buffer is [u8; 32]
StackBufferLen == 32

\* a header value: len bytes; num is what parse::<usize> yields, addr what
\* Ipv4Addr::from_str yields, jwt the token the text encodes
Val(len, num, addr, jwt) == [len |-> len, num |-> num, addr |-> addr, jwt |-> jwt]

Hdr(name, value) == [name |-> name, value |-> value]

\* u8::to_ascii_lowercase
to_ascii_lowercase(c) ==
    CASE c = "A" -> "a" [] c = "B" -> "b" [] c = "C" -> "c" [] c = "D" -> "d"
      [] c = "E" -> "e" [] c = "F" -> "f" [] c = "G" -> "g" [] c = "H" -> "h"
      [] c = "I" -> "i" [] c = "J" -> "j" [] c = "K" -> "k" [] c = "L" -> "l"
      [] c = "M" -> "m" [] c = "N" -> "n" [] c = "O" -> "o" [] c = "P" -> "p"
      [] c = "Q" -> "q" [] c = "R" -> "r" [] c = "S" -> "s" [] c = "T" -> "t"
      [] c = "U" -> "u" [] c = "V" -> "v" [] c = "W" -> "w" [] c = "X" -> "x"
      [] c = "Y" -> "y" [] c = "Z" -> "z" [] OTHER -> c

\* StackLowerCaseStr::from_str followed by as_str: buffer[idx] = ... for every
\* byte of the name is an out-of-bounds write from idx = 32 on
from_str(name) ==
    IF Len(name) > StackBufferLen
    THEN [panic |-> TRUE, str |-> << >>]
    ELSE [panic |-> FALSE, str |-> [i \in 1..Len(name) |-> to_ascii_lowercase(name[i])]]

content_length_name == <<"c", "o", "n", "t", "e", "n", "t", "-", "l", "e", "n", "g", "t", "h">>

x_forwarded_for_name ==
    <<"x", "-", "f", "o", "r", "w", "a", "r", "d", "e", "d", "-", "f", "o", "r">>

x_api_key_name == <<"x", "-", "a", "p", "i", "-", "k", "e", "y">>

\* the locals the header loop fills: content_length, ip, token
NoHeaders == [panic |-> FALSE, content_length |-> None, ip |-> None, token |-> None]

\* for header in req.headers { match name { ... } }
RECURSIVE for_header(_, _)
for_header(headers, acc) ==
    IF headers = << >> THEN acc
    ELSE LET header == Head(headers)
             name == from_str(header.name)
         IN  IF name.panic THEN [acc EXCEPT !.panic = TRUE]
             ELSE for_header(Tail(headers),
                    CASE name.str = content_length_name ->
                           IF header.value.num = None THEN acc
                           ELSE [acc EXCEPT !.content_length = header.value.num]
                      [] name.str = x_forwarded_for_name ->
                           IF header.value.len > MAX_IP_LEN THEN acc
                           ELSE [acc EXCEPT !.ip = Some(header.value)]
                      [] name.str = x_api_key_name ->
                           IF header.value.len > MAX_TOKEN_LEN THEN acc
                           ELSE [acc EXCEPT !.token = Some(header.value)]
                      [] OTHER -> acc)

RECURSIVE SumBytes(_)
SumBytes(headers) ==
    IF headers = << >> THEN 0
    ELSE Len(Head(headers).name) + 2 + Head(headers).value.len + 2 + SumBytes(Tail(headers))

\* the bytes of the request line, the header lines and the empty line
HdrBytes(w) == w.line_bytes + SumBytes(w.headers) + 2

Bytes(w) == HdrBytes(w) + w.body_bytes

\* the offset on the wire of the first byte after the first k requests
RECURSIVE EndOf(_, _)
EndOf(ws, k) == IF k = 0 THEN 0 ELSE EndOf(ws, k - 1) + Bytes(ws[k])

\* the request that starts at offset pos of the wire (0: none does)
ReqAt(ws, pos) ==
    IF \E k \in 1..Len(ws) : EndOf(ws, k - 1) = pos
    THEN CHOOSE k \in 1..Len(ws) : EndOf(ws, k - 1) = pos
    ELSE 0

\* where a socket read can end: in the middle of a head, at its end, at the
\* end of the request
Cuts(ws) ==
    UNION { { EndOf(ws, k - 1) + (HdrBytes(ws[k]) \div 2),
              EndOf(ws, k - 1) + HdrBytes(ws[k]),
              EndOf(ws, k) } : k \in 1..Len(ws) }

\* httparse::Request::parse on the window [from, from + len) of the wire
parse(ws, from, len) ==
    LET k == ReqAt(ws, from)
    IN  IF k = 0 THEN "Err"
        ELSE IF ~ws[k].ok THEN "Err"
        ELSE IF Len(ws[k].headers) > MAX_HEADERS THEN "Err"
        ELSE IF len < HdrBytes(ws[k]) THEN "Partial"
        ELSE "Complete"

\* serde_json::from_slice::<AuthRequest>: every field is required
from_slice_AuthRequest(body) ==
    IF body = None THEN None
    ELSE IF ~({"login", "password", "nonce"} \subseteq DOMAIN body[1]) THEN None
    ELSE Some([login |-> body[1].login, password |-> body[1].password,
               nonce |-> body[1].nonce])

from_slice_RegisterUserRequest(body) ==
    IF body = None THEN None
    ELSE IF ~({"login", "password", "phone", "country", "name"} \subseteq DOMAIN body[1])
    THEN None
    ELSE Some([login |-> body[1].login, password |-> body[1].password,
               name |-> body[1].name, phone |-> body[1].phone,
               country |-> body[1].country])

\* every field of EditUserRequest is an Option
from_slice_EditUserRequest(body) ==
    IF body = None THEN None
    ELSE Some([name |-> IF "name" \in DOMAIN body[1] THEN Some(body[1].name) ELSE None,
               password |-> IF "password" \in DOMAIN body[1]
                            THEN Some(body[1].password) ELSE None,
               phone |-> IF "phone" \in DOMAIN body[1] THEN Some(body[1].phone) ELSE None])

\* the dotted texts among the url pieces and the address each denotes
AddrOfText == [s \in {"10.200.0.0"} |-> <<10, 200, 0, 0>>]

\* Ipv4Addr::from_str on a route parameter
Ipv4Addr_from_str(s) == IF s \in DOMAIN AddrOfText THEN Some(AddrOfText[s]) ELSE None

\* Option::unwrap_or
unwrap_or(o, d) == IF o = None THEN d ELSE o[1]

\* &buf[header_len..header_len + content_length] as JSON: the object the
\* request's body spells when the slice is exactly that body
body_slice(w, content_length) ==
    IF content_length = w.body_bytes THEN w.body ELSE None

\* the request as the code below the body loop sees it: handler, ip, token, body;
\* p is the record of the header loop's locals
request_of(p, w) ==
    LET kind == IF p.handler = None THEN "NoRoute" ELSE p.handler[1].kind
        params == IF p.handler = None THEN << >> ELSE p.handler[1].params
        body == body_slice(w, unwrap_or(p.content_length, 0))
    IN  Req(kind,
            IF p.ip = None THEN None ELSE p.ip[1].addr,
            IF p.token = None THEN None ELSE Some(p.token[1].jwt),
            CASE kind = "Auth" -> from_slice_AuthRequest(body)
              [] kind = "RegisterUser" -> from_slice_RegisterUserRequest(body)
              [] kind = "EditUser" -> from_slice_EditUserRequest(body)
              [] kind \in {"BlacklistUser", "UnblacklistUser"} -> Some(params[1])
              [] kind \in {"BlacklistSubnet", "UnblacklistSubnet"} ->
                   IF Ipv4Addr_from_str(params[1]) = None THEN None
                   ELSE Some([addr |-> Ipv4Addr_from_str(params[1])[1], mask |-> params[2]])
              [] OTHER -> None)

\* RegisterUser on a connection whose task is not interleaved with another one
handle_register(us, fbs, root, r) ==
    IF r.arg = None THEN Result(us, fbs, root, 400, None)
    ELSE IF is_user_exists(us, r.arg[1].login) THEN Result(us, fbs, root, 409, None)
    ELSE Result(create_user(us, r.arg[1].login, r.arg[1].password, r.arg[1].name,
                            r.arg[1].phone, r.arg[1].country),
                fbs, root, 201, None)

\* one request from the end of the body loop to its response (src/src/service.rs:150-353)
respond(us, fbs, root, r) ==
    IF admit(fbs, r) # 0 THEN Result(us, fbs, root, admit(fbs, r), None)
    ELSE IF r.kind = "RegisterUser" THEN handle_register(us, fbs, root, r)
    ELSE IF r.kind \in {"BlacklistSubnet", "UnblacklistSubnet"} /\ r.arg = None
    THEN IF token_gate(us, r) # 0 THEN Result(us, fbs, root, token_gate(us, r), None)
         ELSE IF ~is_prop_admin_cred(us, get_user_login(us, r.tok[1])[1], r.ip[1])
         THEN Result(us, fbs, root, 403, None)
         ELSE Result(us, fbs, root, 400, None)
    ELSE dispatch(us, fbs, root, r)

----------------------------------------------------------------------------
(* ConnectionProcessor::process as the task of one connection.  The task is   *)
(* suspended at the read of the header loop (cp = "headers") or at the read   *)
(* of the body loop (cp = "body"); a step runs it from one read to the next.  *)
(* TcpStream::read is taken to add the bytes it delivers to buf, as the       *)
(* loops' tests of buf.len() read it.                                         *)

\* a response written to the stream, and the request the task took it to answer
Response(code, req) == [code |-> code, req |-> req]

\* the record of a read: the bytes delivered, what the task did with them,
\* and the await it was suspended at
ReadStep(n, ret) == Called("read", n, ret, cp)

SharedUnchanged ==
    UNCHANGED <<users, first_byte_banned_subnets, root_banned_subnets,
                issued, banned_ref, user_ban>>

\* the top of a cycle leaving ip, token and content_length as the cycle before set them
loop_top_keeps(p) == Some(p)

\* ip = None; token = None; content_length = None; handler = None
\* (src/src/service.rs:51-55): None stands for locals that are all None
loop_top(p) == None

\* ip, token and content_length as the header loop finds them
LocalsAtParse ==
    IF parsed = None THEN NoHeaders
    ELSE [panic |-> FALSE, content_length |-> parsed[1].content_length,
          ip |-> parsed[1].ip, token |-> parsed[1].token]

\* the locals after a complete parse of request k (src/src/service.rs:88-128);
\* handler is assigned on every complete parse
HeaderLocals(k) ==
    LET hs == for_header(wire[k].headers, LocalsAtParse)
    IN  [req |-> k, header_len |-> HdrBytes(wire[k]), panic |-> hs.panic,
         content_length |-> hs.content_length, ip |-> hs.ip, token |-> hs.token,
         handler |-> Handler_new(wire[k].method, wire[k].url)]

\* from the end of the body loop to the top of the next cycle: the request
\* is answered and buf is cleared
Dispatch(p, rd) ==
    LET r == request_of(p, wire[p.req])
        res == respond(users, first_byte_banned_subnets, root_banned_subnets, r)
    IN  /\ users' = res.users
        /\ first_byte_banned_subnets' = res.fbs
        /\ root_banned_subnets' = res.root
        /\ issued' = IF r.kind = "Auth" /\ res.code = 200
                     THEN issued \cup {res.out[1]} ELSE issued
        /\ user_ban' = IF r.kind = "BlacklistUser" /\ res.code = 201
                       THEN user_ban \cup {r.arg[1]}
                       ELSE IF r.kind = "UnblacklistUser" /\ res.code = 204
                       THEN user_ban \ {r.arg[1]}
                       ELSE user_ban
        /\ banned_ref' = IF r.kind = "BlacklistSubnet" /\ res.code \in {201, 409}
                         THEN banned_ref \cup {Net(r.arg[1].addr, r.arg[1].mask)}
                         ELSE IF r.kind = "UnblacklistSubnet" /\ res.code \in {204, 409}
                         THEN banned_ref \ {Net(r.arg[1].addr, r.arg[1].mask)}
                         ELSE banned_ref
        /\ written' = Append(written, Response(res.code, p.req))
        /\ last' = Done(r, res.code, res.out)
        /\ cp' = "headers"
        /\ buf' = [from |-> rd, len |-> 0]
        /\ parsed' = loop_top(p)

\* the connection ends: process() returns, after writing code if it is not 0
Return(n, ret, code, len) ==
    /\ cp' = "returned"
    /\ buf' = [buf EXCEPT !.len = len]
    /\ parsed' = parsed
    /\ written' = IF code = 0 THEN written
                  ELSE Append(written, Response(code, ReqAt(wire, buf.from)))
    /\ last' = ReadStep(n, ret)
    /\ SharedUnchanged

\* the task stays in the loop it is in, or moves on to the body loop
Await(n, ret, at, len, p) ==
    /\ cp' = at
    /\ buf' = [buf EXCEPT !.len = len]
    /\ parsed' = p
    /\ written' = written
    /\ last' = ReadStep(n, ret)
    /\ SharedUnchanged

\* the header loop never finding buf too long
header_too_large_never(len) == FALSE

\* buf.len() > MAX_HEADER_SIZE (src/src/service.rs:70)
header_too_large(len) == len > MAX_HEADER_SIZE

\* buf.len() > header_len + MAX_BODY_SIZE (src/src/service.rs:140)
body_too_large(len, header_len) == len > header_len + MAX_BODY_SIZE

\* A usize is written as its residue modulo 2^64 nearest 0: a value below
\* 2^31 is itself, 2^64 - d is -d.  USIZE_MAX is 2^64 - 1.
USIZE_MAX == -1

\* a + b modulo 2^64
wrapping_add(a, b) == a + b

\* a + b as natural numbers reaches 2^64 (one operand at least is below 2^31)
overflows(a, b) == (a < 0 /\ b >= 0 /\ a + b >= 0) \/ (b < 0 /\ a >= 0 /\ a + b >= 0)

\* a < b as natural numbers
usize_lt(a, b) == IF (a < 0) = (b < 0) THEN a < b ELSE b < 0

\* content_length + header_len of the body loop's test and of the body slice
\* (src/src/service.rs:133, 148)
body_end(content_length, header_len) == wrapping_add(content_length, header_len)

\* &buf[header_len..header_len + content_length] with its end before its start
\* (a build with overflow checks panics at the addition already)
slice_panics(p) ==
    usize_lt(body_end(unwrap_or(p.content_length, 0), p.header_len), p.header_len)

\* the task panics
Panics(n, len) ==
    /\ cp' = "panicked"
    /\ buf' = [buf EXCEPT !.len = len]
    /\ last' = ReadStep(n, "panic")
    /\ UNCHANGED <<parsed, written>>
    /\ SharedUnchanged

\* a read of the header loop that delivers n bytes, and what follows it up to
\* the next read (src/src/service.rs:60-131, then 133 on)
HeaderLoop(n) ==
    LET len == buf.len + n
        status == parse(wire, buf.from, len)
        p == HeaderLocals(ReqAt(wire, buf.from))
    IN  IF header_too_large(len) THEN Return(n, "too large", 431, len)
        ELSE CASE status = "Err" -> Return(n, "parse error", 0, len)
               [] status = "Partial" -> Await(n, "partial", "headers", len, parsed)
               [] OTHER ->
                    IF p.panic THEN Panics(n, len)
                    ELSE IF usize_lt(len, body_end(unwrap_or(p.content_length, 0),
                                                   p.header_len))
                    THEN Await(n, "headers", "body", len, Some(p))
                    ELSE IF slice_panics(p) THEN Panics(n, len)
                    ELSE Dispatch(p, rdpos + n)

\* a read of the body loop that delivers n bytes (src/src/service.rs:133-146, then 148 on)
BodyLoop(n) ==
    LET len == buf.len + n
        p == parsed[1]
    IN  IF body_too_large(len, p.header_len) THEN Return(n, "too large", 413, len)
        ELSE IF usize_lt(len, body_end(unwrap_or(p.content_length, 0), p.header_len))
        THEN Await(n, "partial", "body", len, parsed)
        ELSE Dispatch(p, rdpos + n)

\* the socket delivers the next n bytes of the wire
CanRead(n) ==
    /\ peer = "open"
    /\ n > 0
    /\ rdpos + n \in Cuts(wire)

ConnUnchanged == UNCHANGED <<wire, peer, pc, pending, set_vars, held>>

ReadHeaders(n) ==
    /\ cp = "headers"
    /\ CanRead(n)
    /\ rdpos' = rdpos + n
    /\ HeaderLoop(n)
    /\ ConnUnchanged

ReadBody(n) ==
    /\ cp = "body"
    /\ CanRead(n)
    /\ rdpos' = rdpos + n
    /\ BodyLoop(n)
    /\ ConnUnchanged

\* the read of the header loop returns Ok(0) or Err (src/src/service.rs:62-68)
ReadHeadersClosed ==
    /\ cp = "headers"
    /\ peer # "open"
    /\ Return(0, IF peer = "closed" THEN "eof" ELSE "err", 0, buf.len)
    /\ UNCHANGED rdpos
    /\ ConnUnchanged

\* the read of the body loop returns Err (src/src/service.rs:135-138)
ReadBodyErr ==
    /\ cp = "body"
    /\ peer = "reset"
    /\ Return(0, "err", 0, buf.len)
    /\ UNCHANGED rdpos
    /\ ConnUnchanged

\* the read of the body loop returns Ok(0): the loop tests buf.len() again and
\* reads again (src/src/service.rs:133-146)
ReadBodyZero ==
    /\ cp = "body"
    /\ peer = "closed"
    /\ Await(0, "eof", "body", buf.len, parsed)
    /\ UNCHANGED rdpos
    /\ ConnUnchanged

\* the peer shuts its side down, or the connection breaks
PeerEnds(how) ==
    /\ cp \in {"headers", "body"}
    /\ peer = "open"
    /\ peer' = how
    /\ last' = Called("peer", how, None, cp)
    /\ UNCHANGED <<wire, rdpos, buf, cp, parsed, written, pc, pending, set_vars, held>>
    /\ SharedUnchanged

ReadSizes(ws) == {c - rdpos : c \in {d \in Cuts(ws) : d > rdpos}}

\* header names as clients spell them
ContentLengthName == <<"C", "o", "n", "t", "e", "n", "t", "-", "L", "e", "n", "g", "t", "h">>

XForwardedForName ==
    <<"X", "-", "F", "o", "r", "w", "a", "r", "d", "e", "d", "-", "F", "o", "r">>

CookieName == <<"C", "o", "o", "k", "i", "e">>

NameOfLen(n) == [i \in 1..n |-> "a"]

\* a text that is no token
Garbage == Sign(AttackerKey, "", "")

Num(n) == Val(3, Some(n), None, Garbage)

Addr(a) == Val(9, None, Some(a), Garbage)

Tok(jwt) == Val(120, None, None, jwt)

Text(len) == Val(len, None, None, Garbage)

W(method, url, headers, body, body_bytes, ok) ==
    [method |-> method, url |-> url, headers |-> headers, body |-> body,
     body_bytes |-> body_bytes, line_bytes |-> 20, ok |-> ok]

RegisterAlice ==
    W("PUT", <<"", "user">>,
      <<Hdr(ContentLengthName, Num(80)), Hdr(XForwardedForName, Addr(IpUS))>>,
      Some([login |-> "alice", password |-> "p1", name |-> "Alice", phone |-> "111",
            country |-> "US"]), 80, TRUE)

AuthRoot ==
    W("POST", <<"", "auth">>,
      <<Hdr(XForwardedForName, Addr(IpUS)), Hdr(ContentLengthName, Num(50))>>,
      Some([login |-> "root", password |-> "r1", nonce |-> ""]), 50, TRUE)

GetRoot ==
    W("GET", <<"", "user">>,
      <<Hdr(x_api_key_name, Tok(Sign(ServiceKey, "root", ""))),
        Hdr(XForwardedForName, Addr(IpUS)), Hdr(NameOfLen(StackBufferLen), Text(1))>>,
      None, 0, TRUE)

NoSuchRoute == W("GET", <<"", "11">>, <<Hdr(XForwardedForName, Addr(IpUS))>>, None, 0, TRUE)

LargeHead ==
    W("GET", <<"", "user">>,
      <<Hdr(XForwardedForName, Addr(IpUS)), Hdr(CookieName, Text(MAX_HEADER_SIZE + 60))>>,
      None, 0, TRUE)

LargeBody ==
    W("PUT", <<"", "user">>,
      <<Hdr(ContentLengthName, Num(MAX_BODY_SIZE + 100)), Hdr(XForwardedForName, Addr(IpUS))>>,
      Some([login |-> "bob", password |-> "p1", name |-> "Bob", phone |-> "222",
            country |-> "US"]), MAX_BODY_SIZE + 100, TRUE)

LongHeaderName ==
    W("GET", <<"", "user">>,
      <<Hdr(XForwardedForName, Addr(IpUS)), Hdr(NameOfLen(StackBufferLen + 1), Text(1))>>,
      None, 0, TRUE)

Malformed == W("GET", <<"", "user">>, << >>, None, 0, FALSE)

ConnRequests ==
    {RegisterAlice, AuthRoot, GetRoot, NoSuchRoute, LargeHead, LargeBody, LongHeaderName,
     Malformed}

MaxRequests == 2

WiresOf(requests) == UNION {[1..k -> requests] : k \in 1..MaxRequests}

\* a connection has been accepted and its task is at the first read
InitOn(wires) ==
    /\ users = read_users
    /\ first_byte_banned_subnets = << >>
    /\ root_banned_subnets = {}
    /\ pc = [t \in Threads |-> "idle"]
    /\ pending = [t \in Threads |-> NoReq]
    /\ issued = {}
    /\ banned_ref = {}
    /\ user_ban = {}
    /\ last = Done(NoReq, 0, None)
    /\ wire \in wires
    /\ peer = "open"
    /\ rdpos = 0
    /\ buf = [from |-> 0, len |-> 0]
    /\ cp = "headers"
    /\ parsed = None
    /\ written = << >>
    /\ NoPrefixSet
    /\ NoGuards

NextConn ==
    \/ \E n \in ReadSizes(wire) : ReadHeaders(n)
    \/ \E n \in ReadSizes(wire) : ReadBody(n)
    \/ ReadHeadersClosed
    \/ ReadBodyErr
    \/ ReadBodyZero
    \/ \E how \in {"closed", "reset"} : PeerEnds(how)

SpecConn == InitOn(WiresOf(ConnRequests)) /\ [][NextConn]_vars

----------------------------------------------------------------------------
(* Connections whose requests differ in their x-forwarded-for and x-api-key   *)

RootToken == Sign(ServiceKey, "root", "")

WithHeaders(method, url, headers) == W(method, url, headers, None, 0, TRUE)

\* 10.200.0.0/11 holds IpUS2, an address of root's country, and not IpUS
BanSubnetByRoot ==
    WithHeaders("PUT", <<"", "blacklist", "subnet", "10.200.0.0", "11">>,
                <<Hdr(XForwardedForName, Addr(IpUS)), Hdr(x_api_key_name, Tok(RootToken))>>)

AuthRootFrom(ipval) ==
    W("POST", <<"", "auth">>,
      <<Hdr(XForwardedForName, ipval), Hdr(ContentLengthName, Num(50))>>,
      Some([login |-> "root", password |-> "r1", nonce |-> ""]), 50, TRUE)

RegisterAliceFrom(headers) ==
    W("PUT", <<"", "user">>, <<Hdr(ContentLengthName, Num(80))>> \o headers,
      Some([login |-> "alice", password |-> "p1", name |-> "Alice", phone |-> "111",
            country |-> "US"]), 80, TRUE)

EditWith(headers) ==
    W("PATCH", <<"", "user">>, <<Hdr(ContentLengthName, Num(30))>> \o headers,
      Some([name |-> "Eve"]), 30, TRUE)

GateRequests ==
    { BanSubnetByRoot,
      \* x-api-key: valid, none, forged, forged and longer than MAX_TOKEN_LEN
      GetRoot,
      WithHeaders("GET", <<"", "user">>, <<Hdr(XForwardedForName, Addr(IpUS))>>),
      WithHeaders("GET", <<"", "user">>,
                  <<Hdr(x_api_key_name, Tok(Garbage)), Hdr(XForwardedForName, Addr(IpUS))>>),
      WithHeaders("GET", <<"", "user">>,
                  <<Hdr(x_api_key_name, Val(MAX_TOKEN_LEN + 44, None, None, Garbage)),
                    Hdr(XForwardedForName, Addr(IpUS))>>),
      EditWith(<<Hdr(XForwardedForName, Addr(IpUS)),
                 Hdr(x_api_key_name, Tok(Sign(AttackerKey, "root", "")))>>),
      EditWith(<<Hdr(XForwardedForName, Addr(IpUS)), Hdr(x_api_key_name, Tok(RootToken))>>),
      WithHeaders("PUT", <<"", "blacklist", "user", "root">>,
                  <<Hdr(XForwardedForName, Addr(IpUS))>>),
      \* x-forwarded-for: inside the banned subnet, none, no address, longer than MAX_IP_LEN
      AuthRootFrom(Addr(IpUS)),
      AuthRootFrom(Addr(IpUS2)),
      AuthRootFrom(Text(9)),
      RegisterAliceFrom(<<Hdr(XForwardedForName, Addr(IpUS2))>>),
      RegisterAliceFrom(<< >>),
      WithHeaders("GET", <<"", "user">>,
                  <<Hdr(x_api_key_name, Tok(RootToken)),
                    Hdr(XForwardedForName, Text(MAX_IP_LEN + 1))>>),
      WithHeaders("GET", <<"", "user">>,
                  <<Hdr(x_api_key_name, Tok(RootToken)), Hdr(XForwardedForName, Addr(IpUS2))>>) }

SpecGate == InitOn(WiresOf(GateRequests)) /\ [][NextConn]_vars

\* Content-Length: 18446744073709551615 and no body
HugeLength ==
    W("POST", <<"", "auth">>,
      <<Hdr(XForwardedForName, Addr(IpUS)),
        Hdr(ContentLengthName, Val(20, Some(USIZE_MAX), None, Garbage))>>,
      None, 0, TRUE)

\* Content-Length: 18446744073709550616 (2^64 - 1000) and no body
NearHugeLength ==
    W("POST", <<"", "auth">>,
      <<Hdr(XForwardedForName, Addr(IpUS)),
        Hdr(ContentLengthName, Val(20, Some(USIZE_MAX - 999), None, Garbage))>>,
      None, 0, TRUE)

LengthRequests == {AuthRoot, RegisterAlice, GetRoot, HugeLength, NearHugeLength}

\* a connection whose requests declare lengths up to the largest usize
SpecLength == InitOn(WiresOf(LengthRequests)) /\ [][NextConn]_vars

----------------------------------------------------------------------------
(* Properties.  In a step, last' describes the request this step served,   *)
(* the unprimed variables are the store it was served from.                *)

\* the login a request's token verifies to, in store us (None: no or no valid token)
TokenLogin(us, r) == IF r.tok = None THEN None ELSE get_user_login(us, r.tok[1])

\* standard CIDR membership of an address in the registered country of a login
InCountry(us, login, ip) ==
    /\ us[login].country \in DOMAIN country_prefixes
    /\ \E n \in country_prefixes[us[login].country] : NetContains(n, ip)

\* the subnets held by the sharded store
Stored(fbs) == UNION {{fbs[k][i] : i \in 1..Len(fbs[k])} : k \in DOMAIN fbs}

StoreUnchanged ==
    /\ first_byte_banned_subnets' = first_byte_banned_subnets
    /\ root_banned_subnets' = root_banned_subnets

\* C1: a request of a token-bearing kind that carries a valid token for login L
\* and comes from an address outside the prefix set of L's country (or L's
\* country is not indexed) is answered 403 and changes no user record and no
\* banned subnet.  (Stated for requests whose body, if any, deserializes.)
C1_GeofenceOnEveryTokenRequest ==
    [][ ( /\ last'.kind \in TokenKinds
          /\ last'.ip # None
          /\ last'.arg # None \/ last'.kind = "GetUser"
          /\ TokenLogin(users, last') # None
          /\ ~InCountry(users, TokenLogin(users, last')[1], last'.ip[1]) )
        => ( /\ last'.code = 403
             /\ users' = users
             /\ StoreUnchanged ) ]_vars

\* C2: is_ip_banned(a) is true exactly when a lies (CIDR containment) in a
\* subnet that was banned and not unbanned since.
C2_ShardedStoreIsUnshardedSet ==
    \A a \in StoreAddrs :
        is_ip_banned(first_byte_banned_subnets, a)
            <=> \E n \in banned_ref : NetContains(n, a)

\* C3: if no address of S is covered, ban_subnet(S) directly followed by
\* unban_subnet(S) leaves every address of S not banned and the stored subnets
\* as they were before the ban.
C3_BanThenUnbanRestores ==
    [][ ( /\ last.kind = "ban_subnet"
          /\ last'.kind = "unban_subnet"
          /\ last'.arg = last.arg
          /\ \A a \in StoreAddrs : NetContains(last.arg, a) => ~is_ip_banned(last.pre, a) )
        => ( /\ \A a \in StoreAddrs :
                    NetContains(last.arg, a) => ~is_ip_banned(first_byte_banned_subnets', a)
             /\ first_byte_banned_subnets' = last.pre ) ]_vars

\* C4: for an authorized admin request with a well-formed subnet, PUT of a subnet
\* not banned answers 201, PUT of a banned one 409 with the store unchanged,
\* DELETE of a banned one 204, DELETE of one not banned 404 with the store unchanged.
C4_SubnetStatusCodes ==
    [][ ( /\ last'.kind \in {"BlacklistSubnet", "UnblacklistSubnet"}
          /\ admit(first_byte_banned_subnets, last') = 0
          /\ TokenLogin(users, last') # None
          /\ is_prop_admin_cred(users, TokenLogin(users, last')[1], last'.ip[1])
          /\ NetNewOk(last'.arg[1].mask) )
        => LET n == Net(last'.arg[1].addr, last'.arg[1].mask)
               banned == n \in Stored(first_byte_banned_subnets)
           IN  IF last'.kind = "BlacklistSubnet"
               THEN IF banned THEN last'.code = 409 /\ StoreUnchanged
                    ELSE last'.code = 201
               ELSE IF banned THEN last'.code = 204
                    ELSE last'.code = 404 /\ StoreUnchanged ]_vars

\* C5: a RegisterUser request from a present, non-banned address with a
\* well-formed body: if the login exists when is_user_exists looks, the answer is
\* 409 and the user records are unchanged; if not, the request goes on to
\* create_user, and the step answering 201 stores the body's fields with
\* is_admin = false, is_banned = false and an empty nonce.
C5_RegisterOutcome ==
    [][ ( /\ last'.kind = "RegisterUser"
          /\ last'.ip # None
          /\ last'.arg # None
          /\ ~is_ip_banned(first_byte_banned_subnets, last'.ip[1]) )
        => LET b == last'.arg[1]
           IN  IF \E t \in Threads : pc[t] = "create" /\ pc'[t] = "idle"
               THEN /\ last'.code = 201
                    /\ users'[b.login] =
                          [login |-> b.login, password |-> b.password, name |-> b.name,
                           phone |-> b.phone, country |-> b.country,
                           is_admin |-> FALSE, is_banned |-> FALSE, nonce |-> ""]
                    /\ \A l \in DOMAIN users \ {b.login} : users'[l] = users[l]
               ELSE IF b.login \in DOMAIN users
               THEN last'.code = 409 /\ users' = users
               ELSE /\ last'.code = 0
                    /\ users' = users
                    /\ \E t \in Threads : pc'[t] = "create" /\ pending'[t].arg = last'.arg ]_vars

\* a registration was refused for a login whose record had been edited and banned
C5_Witness ==
    /\ last.kind = "RegisterUser"
    /\ last.code = 409
    /\ users["alice"].name # last.arg[1].name
    /\ users["alice"].is_banned

\* C6: a RegisterUser request is answered 201 only for a login that has no record
\* at that moment: of the requests racing for one login at most one gets 201, and
\* no registration replaces a record.
C6_OneRegistrationPerLogin ==
    [][ (last'.kind = "RegisterUser" /\ last'.code = 201)
        => last'.arg[1].login \notin DOMAIN users ]_vars

\* C7: authenticate returns a token, for that login, exactly when the login
\* exists, the password equals the stored one, the account is not banned, its
\* country is indexed and the address lies in the country's prefix set; otherwise
\* it returns none and the answer is 403.
C7_AuthenticateIff ==
    [][ ( /\ last'.kind = "Auth"
          /\ admit(first_byte_banned_subnets, last') = 0
          /\ last'.arg # None )
        => LET b == last'.arg[1]
               ok == /\ b.login \in DOMAIN users
                     /\ users[b.login].password = b.password
                     /\ ~users[b.login].is_banned
                     /\ InCountry(users, b.login, last'.ip[1])
           IN  /\ (last'.out # None) <=> ok
               /\ last'.out # None => last'.code = 200 /\ last'.out[1].login = b.login
               /\ last'.out = None => last'.code = 403 ]_vars

\* a correct password presented from outside the country was refused
C7_Witness ==
    /\ last.kind = "Auth"
    /\ last.code = 403
    /\ last.arg # None
    /\ last.ip = Some(IpOut)
    /\ last.arg[1].login \in DOMAIN users
    /\ users[last.arg[1].login].password = last.arg[1].password
    /\ users[last.arg[1].login].country \in DOMAIN country_prefixes
    /\ ~users[last.arg[1].login].is_banned

\* C8: every token authenticate has returned for a login verifies back to that
\* login in every later state; a token not made with the service key verifies
\* to no login.
C8_TokenRoundTrip ==
    /\ \A tk \in issued : get_user_login(users, tk) = Some(tk.login)
    /\ \A f \in Forged(issued) : get_user_login(users, f) = None
    /\ (last.kind = "Auth" /\ last.code = 200)
           => last.out[1] \in issued /\ last.out[1].login = last.arg[1].login

\* a token of alice outlived a re-authentication with another nonce, an edit and a ban
C8_Witness ==
    /\ "alice" \in DOMAIN users
    /\ \E tk \in issued : tk.login = "alice" /\ tk.nonce # users["alice"].nonce
    /\ users["alice"].name = "Eve"
    /\ users["alice"].is_banned
    /\ Forged(issued) # {Sign(AttackerKey, "root", "")}

\* C9: between a BanUser of L answered 201 and the next UnbanUser of L answered
\* 204, every Authenticate for L is answered 403 and every GetUser or EditUser
\* carrying a token of L is answered 403 and leaves L's record unchanged.
\* (Stated for requests whose body deserializes.)
C9_BannedUserLockedOut ==
    [][ \A l \in user_ban :
          /\ ( /\ last'.kind = "Auth"
               /\ last'.arg # None
               /\ last'.arg[1].login = l )
             => last'.code = 403
          /\ ( /\ last'.kind \in {"GetUser", "EditUser"}
               /\ last'.arg # None \/ last'.kind = "GetUser"
               /\ TokenLogin(users, last') = Some(l) )
             => last'.code = 403 /\ users'[l] = users[l] ]_vars

\* C10: an is_banned flag or the banned-subnet store changes only in a step
\* serving an admin-kind request whose token verifies to a login that is an
\* administrator and passes the geofence check; an admin-kind request whose
\* token verifies to a login failing either is answered 403 and changes nothing.
C10_OnlyAdminsChangeBans ==
    [][ LET authorized ==
              /\ last'.kind \in AdminKinds
              /\ last'.ip # None
              /\ TokenLogin(users, last') # None
              /\ users[TokenLogin(users, last')[1]].is_admin
              /\ InCountry(users, TokenLogin(users, last')[1], last'.ip[1])
        IN  /\ ( \/ \E l \in DOMAIN users : users'[l].is_banned # users[l].is_banned
                 \/ ~StoreUnchanged )
               => authorized
            /\ ( /\ last'.kind \in AdminKinds
                 /\ last'.ip # None
                 /\ TokenLogin(users, last') # None
                 /\ ~authorized )
               => last'.code = 403 /\ users' = users /\ StoreUnchanged ]_vars

\* the route table of the interface: the shapes /auth, /user,
\* /blacklist/user/{login}, /blacklist/subnet/{addr}/{mask}, each with its methods
TableRoute(method, url) ==
    IF Len(url) < 2 \/ url[1] # "" THEN None
    ELSE IF url = <<"", "auth">> /\ method = "POST" THEN Some(H("Auth", << >>))
    ELSE IF url = <<"", "user">> /\ method = "PUT" THEN Some(H("RegisterUser", << >>))
    ELSE IF url = <<"", "user">> /\ method = "GET" THEN Some(H("GetUser", << >>))
    ELSE IF url = <<"", "user">> /\ method = "PATCH" THEN Some(H("EditUser", << >>))
    ELSE IF Len(url) = 4 /\ url[2] = "blacklist" /\ url[3] = "user"
    THEN CASE method = "PUT" -> Some(H("BlacklistUser", <<url[4]>>))
           [] method = "DELETE" -> Some(H("UnblacklistUser", <<url[4]>>))
           [] OTHER -> None
    ELSE IF /\ Len(url) = 5 /\ url[2] = "blacklist" /\ url[3] = "subnet"
            /\ url[5] \in DOMAIN DecimalValue /\ DecimalValue[url[5]] \in 0..255
    THEN CASE method = "PUT" -> Some(H("BlacklistSubnet", <<url[4], DecimalValue[url[5]]>>))
           [] method = "DELETE" ->
                Some(H("UnblacklistSubnet", <<url[4], DecimalValue[url[5]]>>))
           [] OTHER -> None
    ELSE None

\* C11: for every method and every path, Handler::new returns a route exactly
\* when the path is one of the table's shapes starting with '/' and the method
\* is the one listed for it, with the table's kind and parameters; anything
\* else yields no route.
C11_RouterIsTheTable ==
    last.kind = "Handler::new" => last.ret = TableRoute(last.arg.method, last.arg.url)

\* the content-length a request declares, as the header loop reads it
Declared(w) == unwrap_or(for_header(w.headers, NoHeaders).content_length, 0)

\* C12: whatever bytes a client sends (header names of any length, any values,
\* any route and body), the connection's task never panics: every input ends in
\* a response, a silent close or a wait for more bytes.
C12_NoPanic == cp # "panicked"

C14_BodyCeiling ==
    [][ \A i \in 1..Len(written') :
          ( /\ i > Len(written)
            /\ written'[i].req # 0
            /\ wire[written'[i].req].ok
            /\ HdrBytes(wire[written'[i].req]) <= MAX_HEADER_SIZE
            /\ Declared(wire[written'[i].req]) > MAX_BODY_SIZE )
          => ( /\ written'[i].code = 413
               /\ cp' = "returned"
               /\ users' = users
               /\ StoreUnchanged ) ]_vars

\* C15: a read that returns zero bytes or fails, in the header loop or in the
\* body loop, makes the task return, and without writing a response.
C15_ClosedPeerEndsTask ==
    [][ (last'.kind = "read" /\ last'.ret \in {"eof", "err"})
        => (cp' = "returned" /\ written' = written) ]_vars

\* a complete request that parses, stays within both ceilings and declares its body's length
Plain(w) ==
    /\ w.ok
    /\ ~for_header(w.headers, NoHeaders).panic
    /\ Bytes(w) <= MAX_HEADER_SIZE
    /\ Declared(w) = w.body_bytes

\* C16: on a connection carrying complete requests only, however their bytes
\* are split across reads, the i-th response written answers the i-th request,
\* and once every byte has been delivered every request has been answered.
C16_OneResponsePerRequestInOrder ==
    (\A k \in 1..Len(wire) : Plain(wire[k]))
    => ( /\ \A i \in 1..Len(written) : written[i].req = i
         /\ peer = "open" => cp \in {"none", "headers", "body"}
         /\ (rdpos = EndOf(wire, Len(wire)) /\ peer = "open")
            => (cp \in {"none", "headers"} /\ buf.len = 0 /\ Len(written) = Len(wire)) )

\* a header name with its letters in lower case
Fold(name) == [i \in 1..Len(name) |-> to_ascii_lowercase(name[i])]

\* the values a request carries under a header name
Carried(w, name) ==
    {w.headers[i].value : i \in {j \in 1..Len(w.headers) : Fold(w.headers[j].name) = name}}

\* the request answered by this step (0: the step answers none)
Answered == IF Len(written') > Len(written) THEN written'[Len(written')].req ELSE 0

\* the step changes no shared state and leaves the connection open, at the top of a new cycle
RefusedKeptOpen(code) ==
    /\ last'.code = code
    /\ last'.out = None
    /\ users' = users
    /\ StoreUnchanged
    /\ issued' = issued
    /\ cp' = "headers"
    /\ peer' = peer
    /\ parsed' = None
    /\ buf' = [from |-> rdpos', len |-> 0]

\* the answer to a request of a kind that needs no token does not depend on a token
TokenIgnored ==
    LET r0 == Req(last'.kind, last'.ip, None, last'.arg)
        r1 == Req(last'.kind, last'.ip, Some(Garbage), last'.arg)
        a0 == respond(users, first_byte_banned_subnets, root_banned_subnets, r0)
        a1 == respond(users, first_byte_banned_subnets, root_banned_subnets, r1)
    IN  /\ a0 = a1
        /\ last'.code = a0.code
        /\ users' = a0.users
        /\ last'.code \in {200, 201, 400, 403, 409}

\* C17 as stated: a request with a resolved route other than Authenticate and
\* RegisterUser, from a present non-banned address, is answered 403 when it
\* carries no x-api-key and 400 when it carries one that does not verify, with
\* no state change and the connection kept open; Authenticate and RegisterUser
\* are processed without any token.
C17_TokenGate ==
    [][ ( /\ Answered # 0
          /\ last'.kind \in TokenKinds \cup {"Auth", "RegisterUser"}
          /\ last'.ip # None
          /\ ~is_ip_banned(first_byte_banned_subnets, last'.ip[1]) )
        => LET keys == Carried(wire[Answered], x_api_key_name)
           IN  /\ (last'.kind \in TokenKinds /\ keys = {}) => RefusedKeptOpen(403)
               /\ ( /\ last'.kind \in TokenKinds
                    /\ keys # {}
                    /\ \A v \in keys : get_user_login(users, v.jwt) = None )
                  => RefusedKeptOpen(400)
               /\ last'.kind \in {"Auth", "RegisterUser"} => TokenIgnored ]_vars

\* C17 amended: the same, with an x-api-key longer than MAX_TOKEN_LEN bytes
\* counting as not carried: 403 when no x-api-key of at most MAX_TOKEN_LEN bytes
\* is carried, 400 when one is carried and does not verify.
C17_TokenGateBounded ==
    [][ ( /\ Answered # 0
          /\ last'.kind \in TokenKinds \cup {"Auth", "RegisterUser"}
          /\ last'.ip # None
          /\ ~is_ip_banned(first_byte_banned_subnets, last'.ip[1]) )
        => LET keys == {v \in Carried(wire[Answered], x_api_key_name) :
                            v.len <= MAX_TOKEN_LEN}
           IN  /\ (last'.kind \in TokenKinds /\ keys = {}) => RefusedKeptOpen(403)
               /\ ( /\ last'.kind \in TokenKinds
                    /\ keys # {}
                    /\ \A v \in keys : get_user_login(users, v.jwt) = None )
                  => RefusedKeptOpen(400)
               /\ last'.kind \in {"Auth", "RegisterUser"} => TokenIgnored ]_vars

\* the second request of a connection, an edit with a forged token, was answered 400
C17_Witness ==
    /\ last.kind = "EditUser"
    /\ last.code = 400
    /\ last.arg # None
    /\ last.tok = Some(Sign(AttackerKey, "root", ""))
    /\ Len(written) = 2
    /\ cp = "headers"

\* C18: a request with a resolved route that carries no x-forwarded-for
\* parseable as an IPv4 address, or whose address is_ip_banned reports banned,
\* is answered 403 without a token, changes no user record and no banned
\* subnet, and leaves the connection open at the top of a new cycle;
\* Authenticate and RegisterUser included.
C18_IpGate ==
    [][ ( /\ Answered # 0
          /\ last'.kind \in TokenKinds \cup {"Auth", "RegisterUser"}
          /\ \/ \A v \in Carried(wire[Answered], x_forwarded_for_name) : v.addr = None
             \/ /\ last'.ip # None
                /\ is_ip_banned(first_byte_banned_subnets, last'.ip[1]) )
        => RefusedKeptOpen(403) ]_vars

\* root's correct password was refused from an address of its country that lies
\* in a banned subnet
C18_Witness ==
    /\ last.kind = "Auth"
    /\ last.code = 403
    /\ last.ip = Some(IpUS2)
    /\ last.arg = Some([login |-> "root", password |-> "r1", nonce |-> ""])
    /\ is_ip_banned(first_byte_banned_subnets, IpUS2)
    /\ is_country_ip(users["root"].country, IpUS2)
    /\ cp = "headers"

\* the request just answered came from an authorized admin: admitted address,
\* verifying token of a user record that is admin, from its country
ByAdmin ==
    /\ last'.kind \in {"BlacklistUser", "UnblacklistUser"}
    /\ last'.arg # None
    /\ admit(first_byte_banned_subnets, Req(last'.kind, last'.ip, last'.tok, last'.arg)) = 0
    /\ token_gate(users, Req(last'.kind, last'.ip, last'.tok, last'.arg)) = 0
    /\ is_prop_admin_cred(users, get_user_login(users, last'.tok[1])[1], last'.ip[1])

\* C19: for BlacklistUser and UnblacklistUser by an authorized admin,
\* ban_user/unban_user return None for an unknown login and Some(FALSE), with
\* the user store unchanged, when the flag already has the requested value,
\* and the status answered for a target already in the requested state
\* differs from the status the same request gets for an unknown target login.
C19_UnknownDistinctFromAlready ==
    [][ ByAdmin
        => LET l == last'.arg[1]
               want == (last'.kind = "BlacklistUser")
               call == IF want THEN ban_user(users, l) ELSE unban_user(users, l)
               unknown == dispatch(users, first_byte_banned_subnets, root_banned_subnets,
                                   Req(last'.kind, last'.ip, last'.tok, Some("nobody")))
           IN  /\ l \notin DOMAIN users => call.ret = None
               /\ "nobody" \notin DOMAIN users
               /\ (l \in DOMAIN users /\ users[l].is_banned = want)
                  => /\ call.ret = Some(FALSE)
                     /\ users' = users
                     /\ last'.code # unknown.code ]_vars

\* C20: ShardedPrefixSet behaves like one unsharded prefix-range set for
\* subnets of every prefix length 0..32: after any sequence of insert and
\* remove calls, contains(a/32) is true exactly for the addresses a covered by
\* the inserted-and-not-removed ranges, ranges shorter than the
\* SHARD_AMOUNT_SHIFT shard-selecting bits included.
C20_ShardedLikeUnsharded ==
    \A a \in PrefixAddrs :
        contains(prefix_set, Net(a, 32)) = IpRange_contains(range_ref, Net(a, 32))

\* the Authenticate request just answered reached State::authenticate
AuthCalled ==
    /\ last'.kind = "Auth"
    /\ last'.arg # None
    /\ admit(first_byte_banned_subnets, Req(last'.kind, last'.ip, last'.tok, last'.arg)) = 0

\* record u is record v but for its nonce
SameButNonce(u, v) == [u EXCEPT !.nonce = v.nonce] = v

\* C21: an authenticate call that passes the login, password and ban checks
\* but fails the geofence check returns none and leaves the user's stored
\* nonce equal to the supplied nonce; a call that fails on unknown login,
\* wrong password or banned account leaves every user record unchanged; no
\* authenticate call changes any field other than that user's nonce.
C21_AuthenticateFrame ==
    [][ AuthCalled
        => LET b == last'.arg[1]
               passes == /\ b.login \in DOMAIN users
                         /\ users[b.login].password = b.password
                         /\ ~users[b.login].is_banned
           IN  /\ (passes /\ ~is_country_ip(users[b.login].country, last'.ip[1]))
                  => /\ last'.out = None
                     /\ last'.code = 403
                     /\ users'[b.login].nonce = b.nonce
               /\ ~passes => users' = users
               /\ DOMAIN users' = DOMAIN users
               /\ \A l \in DOMAIN users :
                     /\ SameButNonce(users[l], users'[l])
                     /\ l # b.login => users'[l] = users[l] ]_vars

\* alice, who never got a token with nonce "n1", has the nonce "n1" of the
\* call just refused from an address outside her country
C21_Witness ==
    /\ last.kind = "Auth"
    /\ last.code = 403
    /\ last.ip = Some(IpOut)
    /\ last.arg = Some([login |-> "alice", password |-> "p1", nonce |-> "n1"])
    /\ "alice" \in DOMAIN users
    /\ users["alice"].password = "p1"
    /\ users["alice"].country = "US"
    /\ ~users["alice"].is_banned
    /\ users["alice"].nonce = "n1"
    /\ \A t \in issued : t.login # "alice"

\* C22: a successful EditUser request for login L changes only those of L's
\* name, password and phone that are present in the request body, setting
\* each to the supplied value; L's login, country, is_admin, is_banned and
\* nonce, every field absent from the request, and every other user's record
\* are unchanged.
C22_EditOnlyPresentFields ==
    [][ (last'.kind = "EditUser" /\ last'.code = 202)
        => LET L == get_user_login(users, last'.tok[1])[1]
               b == last'.arg[1]
               old == users[L]
               new == users'[L]
           IN  /\ DOMAIN users' = DOMAIN users
               /\ \A l \in DOMAIN users \ {L} : users'[l] = users[l]
               /\ new.name = IF b.name # None THEN b.name[1] ELSE old.name
               /\ new.password = IF b.password # None THEN b.password[1] ELSE old.password
               /\ new.phone = IF b.phone # None THEN b.phone[1] ELSE old.phone
               /\ new.login = old.login
               /\ new.country = old.country
               /\ new.is_admin = old.is_admin
               /\ new.is_banned = old.is_banned
               /\ new.nonce = old.nonce ]_vars

\* alice's edit with a name and a phone and no password was accepted: the two
\* are the supplied ones, the password is the one she registered with
C22_Witness ==
    /\ last.kind = "EditUser"
    /\ last.code = 202
    /\ last.arg = Some([name |-> Some("Eve"), password |-> None, phone |-> Some("333")])
    /\ get_user_login(users, last.tok[1]) = Some("alice")
    /\ users["alice"].name = "Eve"
    /\ users["alice"].phone = "333"
    /\ users["alice"].password = "p1"
    /\ users["alice"].country = "US"

\* the logins that are admin in a user map
Admins(us) == {l \in DOMAIN us : us[l].is_admin}

\* C23: in every reachable state the logins with is_admin = true are among
\* the admin logins loaded at startup: no sequence of register, authenticate,
\* edit, ban or unban calls turns a non-admin record into an admin one, and a
\* newly registered user is never an admin.
C23_NoPromotion ==
    Admins(users) \subseteq Admins(read_users)

\* alice exists, is no admin, and an edit_user asking is_admin = true for her
\* has just returned Some(())
C23_Witness ==
    /\ last.kind = "edit_user"
    /\ last.arg.login = "alice"
    /\ last.arg.is_admin = Some(TRUE)
    /\ last.ret = Some(TRUE)
    /\ "alice" \in DOMAIN users
    /\ ~users["alice"].is_admin

\* the locals a connection that processed nothing before has after parsing w
FreshLocals(w) ==
    LET hs == for_header(w.headers, NoHeaders)
    IN  [header_len |-> HdrBytes(w), panic |-> hs.panic,
         content_length |-> hs.content_length, ip |-> hs.ip, token |-> hs.token,
         handler |-> Handler_new(w.method, w.url)]

\* C24: the response to a request on a keep-alive connection depends only on
\* that request's own method, path, headers and body and on the shared store
\* state: it is the response, and the store change, of a connection that gets
\* the same request first, in the same store state, whatever ip, token,
\* content-length or route the requests processed before it carried.
C24_NoLeakAcrossCycles ==
    [][ (Answered # 0 /\ cp' = "headers")
        => LET w == wire[Answered]
               r == request_of(FreshLocals(w), w)
               a == respond(users, first_byte_banned_subnets, root_banned_subnets, r)
           IN  /\ last' = Done(r, a.code, a.out)
               /\ users' = a.users
               /\ first_byte_banned_subnets' = a.fbs
               /\ root_banned_subnets' = a.root
               /\ parsed' = None ]_vars

\* after a request with root's token and an address was answered 200, a
\* request for the same route carrying an address and no x-api-key was
\* answered 403 on the same connection
C24_Witness ==
    /\ Len(wire) = 2
    /\ Len(written) = 2
    /\ written[1].code = 200
    /\ Carried(wire[1], x_api_key_name) = {Tok(RootToken)}
    /\ Carried(wire[2], x_api_key_name) = {}
    /\ Carried(wire[2], x_forwarded_for_name) = {Addr(IpUS)}
    /\ wire[2].method = "GET"
    /\ last.kind = "GetUser"
    /\ last.tok = None
    /\ last.code = 403
    /\ cp = "headers"

\* the banned subnets a store holds
StoredIn(fbs, root) == root \cup UNION {{fbs[k][i] : i \in 1..Len(fbs[k])} : k \in DOMAIN fbs}

\* C25: under every interleaving of concurrent ban_subnet and unban_subnet
\* calls, no shard list ever holds the same (address, prefix) pair twice,
\* every subnet stored under octet k has k as the first octet of its address,
\* and each call returns true exactly when it changed the stored set of
\* banned subnets (ban: the subnet was absent and is now present; unban: it
\* was present and is now absent); retain changes nothing of that set.
C25_ConcurrentBanStore ==
    [][ LET old == StoredIn(first_byte_banned_subnets, root_banned_subnets)
            new == StoredIn(first_byte_banned_subnets', root_banned_subnets')
            fbs == first_byte_banned_subnets'
        IN  /\ \A k \in DOMAIN fbs :
                  /\ \A i, j \in 1..Len(fbs[k]) : fbs[k][i] = fbs[k][j] => i = j
                  /\ \A i \in 1..Len(fbs[k]) : fbs[k][i].addr[1] = k
            /\ last'.kind = "ban_subnet"
               => /\ last'.ret = (new # old)
                  /\ last'.ret => (last'.arg \notin old /\ new = old \cup {last'.arg})
            /\ last'.kind = "unban_subnet"
               => /\ last'.ret = (new # old)
                  /\ last'.ret => (last'.arg \in old /\ new = old \ {last'.arg})
            /\ last'.kind = "retain" => new = old ]_vars

\* thread 2's ban_subnet of 10.0.0.0/8 has just returned true while thread 1
\* is inside the retain of its unban_subnet, with octet 10 still to visit
C25_Witness ==
    /\ last.kind = "ban_subnet"
    /\ last.pre = 2
    /\ last.ret = TRUE
    /\ last.arg = Net(<<10, 0, 0, 0>>, 8)
    /\ pc[1] = "retain"
    /\ pending[1].arg[1] = {10}
    /\ first_byte_banned_subnets[10] = <<Net(<<10, 0, 0, 0>>, 8)>>
    /\ banned_ref = {Net(<<10, 0, 0, 0>>, 8)}

\* C26: for every content-length value that parses as a usize (up to
\* 2^64 - 1), the sum header_len + content_length is formed without wrapping
\* around, so that whenever Dispatch is reached header_len + content_length
\* <= buffered length holds and the body region is the content_length bytes
\* following the header block.
C26_LengthSumNoWrap ==
    [][ LET n == rdpos' - rdpos
            len == buf.len + n
            k == ReqAt(wire, buf.from)
        IN  /\ ( /\ cp = "headers"
                 /\ n > 0
                 /\ ~header_too_large(len)
                 /\ parse(wire, buf.from, len) = "Complete"
                 /\ ~HeaderLocals(k).panic )
               => LET p == HeaderLocals(k)
                      cl == unwrap_or(p.content_length, 0)
                  IN  /\ ~overflows(cl, p.header_len)
                      /\ cp' # "panicked"
            /\ (cp \in {"headers", "body"} /\ Answered # 0 /\ cp' = "headers")
               => LET w == wire[Answered]
                      cl == Declared(w)
                  IN  /\ cl >= 0
                      /\ HdrBytes(w) + cl <= len
                      /\ request_of(FreshLocals(w), w).arg = last'.arg ]_vars

\* C27: once ban_user(L) has set is_banned for login L, L's record stays
\* banned in every later state until an unban_user(L) call returns true: no
\* RegisterUser for L on another thread, authenticate or edit resets the flag
\* or replaces the record.
C27_BanIsSticky ==
    \A l \in user_ban : l \in DOMAIN users /\ users[l].is_banned

\* C28: while an administrator account A is banned, no request carrying a
\* token of A changes any state: BanUser, UnbanUser (unbanning A itself
\* included), BanSubnet and UnbanSubnet requests authenticated as A are
\* answered 403 and leave every is_banned flag and the banned-subnet store
\* unchanged.
C28_BannedAdminIsPowerless ==
    [][ ( /\ last'.kind \in AdminKinds
          /\ last'.tok # None
          /\ get_user_login(users, last'.tok[1]) # None
          /\ users[get_user_login(users, last'.tok[1])[1]].is_admin
          /\ users[get_user_login(users, last'.tok[1])[1]].is_banned )
        => /\ last'.code = 403
           /\ \A l \in DOMAIN users : users'[l].is_banned = users[l].is_banned
           /\ first_byte_banned_subnets' = first_byte_banned_subnets
           /\ root_banned_subnets' = root_banned_subnets ]_vars

\* the guards held by one thread at a time: one at most, and none while it
\* asks for the next
OneGuardAtATime ==
    \A t \in Threads :
        /\ Cardinality(held[t]) <= 1
        /\ pc[t] = "waiting" => held[t] = {}

\* a thread kept waiting is waiting for a call made for the same key
WaitsOnlyForSameKey ==
    \A t, u \in Threads :
        (t # u /\ pc[t] = "waiting" /\ blocks(u, t))
            => call_key(pending[u]) = call_key(pending[t])

\* every call returns
EveryCallReturns == \A t \in Threads : (pc[t] # "idle") ~> (pc[t] = "idle")

\* C29: no interleaving of store operations issued by different threads
\* deadlocks: every authenticate, get_user, edit_user, ban_user, unban_user,
\* is_ip_banned, ban_subnet and unban_subnet call holds at most one key/shard
\* lock at a time and eventually returns under fair scheduling, and operations
\* on different keys or shards never wait for each other.
C29_NoDeadlockNoCrossWait ==
    /\ []OneGuardAtATime
    /\ EveryCallReturns
    /\ []WaitsOnlyForSameKey

====
